---- MODULE Spec2Model ----
(***************************************************************************)
(* Logic simulator: the name table (names.py) and the scanner (scanner.py) *)
(* as state machines.                                                      *)
(*                                                                         *)
(* A Python string is a sequence of one-character strings, so that the     *)
(* scanner can build names character by character: "OR" is <<"O", "R">>.   *)
(* Python's None is NoneId where an id is expected and NoneType where a    *)
(* symbol type is expected; an optional string is a sequence of at most    *)
(* one string (<<>> is None).                                              *)
(***************************************************************************)
EXTENDS Integers, Sequences, FiniteSets, TLC

VARIABLES
    \* Names
    error_code_count,   \* Names.error_code_count
    id_names,           \* Names.id_names: id -> name string
    names_id,           \* Names.names_id: name string -> id
    num_items,          \* Names.num_items
    \* what the caller of Names has seen
    call,               \* the last call made on the table and what it returned
    first_id,           \* name string -> the id lookup returned for it first
    seen,               \* the distinct strings handed to lookup, in first-seen order
    codes,              \* the ranges unique_error_codes has returned, in order
    \* Scanner
    text,               \* the content of the definition file
    FILE,               \* Scanner.FILE: [offset, closed]
    position,           \* Scanner.position
    line_number,        \* Scanner.line_number
    current_character,  \* Scanner.current_character
    name_string,        \* Scanner.name_string
    symbol,             \* the Symbol the last get_symbol returned
    symbols,            \* every Symbol returned so far, in order, each with
                        \* the file offset of the first character it stands
                        \* for (one past the end of the file for EOF)
    message,            \* what the last print_error call returned, and the
                        \* Symbol it was called with
    \* Parser (Parser.symbol is symbol), Devices, Network and Monitors
    parent,             \* Parser.parent
    error_count,        \* Parser.error_count
    devices_list,       \* device id -> the device: its kind, what drives each
                        \* of its inputs, its outputs
    monitors_dictionary, \* (device id, output id) -> the signals recorded for it
    errors,             \* the diagnostics printed, in order
    returned,           \* what parse_network returned, once it has
    \* Gui
    gui,                \* the Gui has been constructed
    is_running,         \* Gui.is_running
    current_cycle,      \* Gui.current_cycle
    target_cycles,      \* Gui.target_cycles (0 before the first run)
    signals,            \* device id -> the state the device carries from
                        \* cycle to cycle and the levels of its outputs
    run_calls,          \* what execute_cycle has called since the run was
                        \* started, in order, with what it returned
    \* the same file parsed again
    earlier,            \* what the parse before this one left behind,
                        \* <<>> when this is the first one
    \* parse_network, one iteration of a loop at a time
    loops               \* the loops parse_network is inside of, the outermost
                        \* first, each with the symbols read when its
                        \* latest iteration began

names_vars == <<id_names, names_id, num_items>>
caller_vars == <<call, first_id, seen, codes>>
scanner_vars == <<text, FILE, position, line_number, current_character,
                  name_string, symbol, symbols>>
parser_vars == <<parent, error_count, devices_list, monitors_dictionary, errors,
                 returned>>
gui_vars == <<gui, is_running, current_cycle, target_cycles, signals, run_calls>>
vars == <<error_code_count, names_vars, caller_vars, scanner_vars, message,
          parser_vars, gui_vars, earlier, loops>>

----------------------------------------------------------------------------
(* Bounds of the model *)

\* longest name string handed to Names directly
MaxNameLen == 1
\* longest list handed to Names.lookup
MaxList == 2
\* most names a directly driven table holds
MaxItems == 2
\* most unique_error_codes calls in one run
MaxCalls == 3
\* largest |num_error_codes| asked for
MaxCodes == 2

----------------------------------------------------------------------------
(* Values *)

NoneId == -1

Range(f) == {f[x] : x \in DOMAIN f}

\* The one element of a set of one element. TLC evaluates a definition of a
\* LET and an argument of an operator where it is used, and again at the
\* next use; a value bound by \in is evaluated once. The operators that
\* thread a table, a scanner or a parser bind the one they are given, and
\* each one they go on from, in this way.
The(S) == CHOOSE x \in S : TRUE

\* all sequences over S of length 0..n
RECURSIVE SeqsUpTo(_, _)
SeqsUpTo(S, n) ==
    IF n = 0 THEN {<<>>}
    ELSE LET shorter == SeqsUpTo(S, n - 1)
         IN  shorter \cup {Append(q, x) : q \in shorter, x \in S}

NameChars == {"A", "B"}
NameStrings == SeqsUpTo(NameChars, MaxNameLen)

\* Symbol.type: the symbol types are range(9); a fresh Symbol has type None
COMMA == 0
SEMICOLON == 1
COLON == 2
ARROW == 3
DOT == 4
KEYWORD == 5
NUMBER == 6
NAME == 7
EOF == 8
NoneType == -1

\* Symbol.id is None, an int (a name id or a number) or a str (a waveform)
IdNone == [k |-> "None", n |-> 0, s |-> <<>>]
IdInt(n) == [k |-> "int", n |-> n, s |-> <<>>]
IdStr(s) == [k |-> "str", n |-> 0, s |-> s]

\* Symbol()
NewSymbol == [type |-> NoneType, id |-> IdNone, line_number |-> 1, position |-> 1]

----------------------------------------------------------------------------
(* Names *)

\* The table as one value, for the operators that thread it.
NamesNow == [id_names |-> id_names, names_id |-> names_id, num_items |-> num_items]

NamesInit == [id_names |-> <<>>, names_id |-> <<>>, num_items |-> 0]

\* dict.get(key, None) on names_id
query(N, name) ==
    IF name \in DOMAIN N.names_id THEN N.names_id[name] ELSE NoneId

\* dict.get(key, None) on id_names
get_name_string(N, name_id) ==
    IF name_id \in DOMAIN N.id_names THEN <<N.id_names[name_id]>> ELSE <<>>

\* d[k] = v on a dict held as a function
DictSet(d, k, v) == (k :> v) @@ d

\* a lookup that never consults the table
lookup_step_no_query(N, name) ==
    [N  |-> [id_names  |-> DictSet(N.id_names, N.num_items, name),
             names_id  |-> DictSet(N.names_id, name, N.num_items),
             num_items |-> N.num_items + 1],
     id |-> N.num_items]

\* a lookup that forgets to count the name it adds
lookup_step_no_count(N, name) ==
    IF query(N, name) = NoneId
    THEN [N  |-> [id_names  |-> DictSet(N.id_names, N.num_items, name),
                  names_id  |-> DictSet(N.names_id, name, N.num_items),
                  num_items |-> N.num_items],
          id |-> N.num_items]
    ELSE [N |-> N, id |-> query(N, name)]

\* one iteration of lookup's loop: the table after it and the id appended
lookup_step(N, name) ==
    IF query(N, name) = NoneId
    THEN [N  |-> [id_names  |-> DictSet(N.id_names, N.num_items, name),
                  names_id  |-> DictSet(N.names_id, name, N.num_items),
                  num_items |-> N.num_items + 1],
          id |-> N.num_items]
    ELSE [N |-> N, id |-> query(N, name)]

\* lookup(name_string_list): the table after it and names_id_list. The loop
\* runs over the list in order: over its first half, then over the rest from
\* the table the first half left (halves keep the evaluation shallow).
RECURSIVE lookup(_, _)
lookup(N0, name_string_list) ==
    The({
        IF name_string_list = <<>> THEN [N |-> N, ids |-> <<>>]
        ELSE IF Len(name_string_list) = 1
        THEN The({[N |-> one.N, ids |-> <<one.id>>] :
                     one \in {lookup_step(N, name_string_list[1])}})
        ELSE LET half == Len(name_string_list) \div 2
             IN  The({The({[N |-> rest.N, ids |-> first.ids \o rest.ids] :
                              rest \in {lookup(first.N,
                                               SubSeq(name_string_list, half + 1,
                                                      Len(name_string_list)))}}) :
                         first \in {lookup(N, SubSeq(name_string_list, 1, half))}}) :
        N \in {N0}})

\* a query that interns what it does not find
query_call_inserting(N, name) == lookup_step(N, name)

\* Names.query as a call: it returns and leaves the table alone
query_call(N, name) == [N |-> N, id |-> query(N, name)]

\* unique_error_codes(n): the new count and the range(lo, hi) returned
unique_error_codes(count, num_error_codes) ==
    [count |-> count + num_error_codes,
     lo    |-> (count + num_error_codes) - num_error_codes,
     hi    |-> count + num_error_codes]

\* the integers of Python's range(lo, hi)
PyRange(lo, hi) == lo .. (hi - 1)

NoCall == [op |-> "none", names |-> <<>>, num |-> 0, ids |-> <<>>, str |-> <<>>]

SetNames(N) ==
    /\ id_names' = N.id_names
    /\ names_id' = N.names_id
    /\ num_items' = N.num_items

\* the strings of a list the table does not hold yet
NewNames(N, list) == Range(list) \ DOMAIN N.names_id

\* the id the caller first saw for each string: what it already knew, and
\* for a string new to it the id at its first place in this list
FirstSeen(known, list, ids) ==
    [s \in (DOMAIN known) \cup Range(list) |->
        IF s \in DOMAIN known THEN known[s]
        ELSE ids[CHOOSE i \in DOMAIN list :
                    list[i] = s /\ \A j \in DOMAIN list : list[j] = s => i <= j]]

\* the strings seen so far and then those of list, each once
RECURSIVE SeenAfter(_, _)
SeenAfter(sofar, list) ==
    IF list = <<>> THEN sofar
    ELSE SeenAfter(IF Head(list) \in Range(sofar) THEN sofar
                   ELSE Append(sofar, Head(list)),
                   Tail(list))

Lookup ==
    \E list \in SeqsUpTo(NameStrings, MaxList) :
        /\ num_items + Cardinality(NewNames(NamesNow, list)) <= MaxItems
        /\ LET r == lookup(NamesNow, list)
           IN  /\ SetNames(r.N)
               /\ call' = [NoCall EXCEPT !.op = "lookup", !.names = list, !.ids = r.ids]
               /\ first_id' = FirstSeen(first_id, list, r.ids)
               /\ seen' = SeenAfter(seen, list)
        /\ UNCHANGED <<error_code_count, codes, scanner_vars, message, parser_vars, gui_vars, earlier, loops>>

Query ==
    \E name \in NameStrings :
        /\ LET r == query_call(NamesNow, name)
           IN  /\ SetNames(r.N)
               /\ call' = [NoCall EXCEPT !.op = "query", !.names = <<name>>,
                                         !.ids = <<r.id>>]
        /\ UNCHANGED <<error_code_count, first_id, seen, codes, scanner_vars, message,
                       parser_vars, gui_vars, earlier, loops>>

GetNameString ==
    \E name_id \in -1 .. MaxItems :
        /\ call' = [NoCall EXCEPT !.op = "get_name_string", !.num = name_id,
                                  !.str = get_name_string(NamesNow, name_id)]
        /\ UNCHANGED <<error_code_count, names_vars, first_id, seen, codes,
                       scanner_vars, message, parser_vars, gui_vars, earlier, loops>>

UniqueErrorCodes ==
    \E n \in -MaxCodes .. MaxCodes :
        /\ Len(codes) < MaxCalls
        /\ LET r == unique_error_codes(error_code_count, n)
           IN  /\ error_code_count' = r.count
               /\ codes' = Append(codes, [n |-> n, lo |-> r.lo, hi |-> r.hi])
        /\ UNCHANGED <<names_vars, call, first_id, seen, scanner_vars, message,
                       parser_vars, gui_vars, earlier, loops>>

\* No parser is running: the state of a Parser that has parsed nothing.
\* no Gui has been constructed
GuiIdle ==
    /\ earlier = <<>>
    /\ loops = <<>>
    /\ gui = FALSE
    /\ is_running = FALSE
    /\ current_cycle = 0
    /\ target_cycles = 0
    /\ signals = <<>>
    /\ run_calls = <<>>

ParserIdle ==
    /\ GuiIdle
    /\ parent = "None"
    /\ error_count = 0
    /\ devices_list = <<>>
    /\ monitors_dictionary = <<>>
    /\ errors = <<>>
    /\ returned = "none"

\* print_error has not been called
NoMessage == [called |-> FALSE, symbol |-> NewSymbol, text |-> <<>>]

\* The scanner is not running while the table is driven directly.
ScannerIdle ==
    /\ text = <<>>
    /\ FILE = [offset |-> 0, closed |-> TRUE]
    /\ position = 0
    /\ line_number = 1
    /\ current_character = ""
    /\ name_string = <<>>
    /\ symbol = NewSymbol
    /\ symbols = <<>>
    /\ message = NoMessage
    /\ ParserIdle

\* Names(): the state after Names.__init__
InitNames ==
    /\ error_code_count = 0
    /\ id_names = NamesInit.id_names
    /\ names_id = NamesInit.names_id
    /\ num_items = NamesInit.num_items
    /\ call = NoCall
    /\ first_id = <<>>
    /\ seen = <<>>
    /\ codes = <<>>
    /\ ScannerIdle

NextNames == Lookup \/ Query \/ GetNameString

\* a table driven by lookup, query and get_name_string calls
SpecNames == InitNames /\ [][NextNames]_vars

NextCodes == UniqueErrorCodes

\* a table asked for error codes
SpecCodes == InitNames /\ [][NextCodes]_vars

----------------------------------------------------------------------------
(* Claims about Names *)

\* C1: Name round-trip. After lookup(list), get_name_string of each id
\* returned is the string it was returned for, and each id is the id lookup
\* returned for that string the first time, also when the string stands
\* twice in the list and whatever was interned in between; query(s) of a
\* string interned before returns that first id too.
C1_NameRoundTrip ==
    /\ call.op = "lookup" =>
          \A i \in DOMAIN call.names :
              /\ get_name_string(NamesNow, call.ids[i]) = <<call.names[i]>>
              /\ call.ids[i] = first_id[call.names[i]]
    /\ (call.op = "query" /\ call.names[1] \in DOMAIN first_id) =>
          call.ids[1] = first_id[call.names[1]]

\* a lookup of one string twice in a list, after a later string was interned
C1_Witness ==
    /\ call.op = "lookup"
    /\ Len(call.names) = 2
    /\ call.names[1] = call.names[2]
    /\ call.ids[1] < num_items - 1

\* C2: the ids assigned are exactly 0..num_items-1, in the order the distinct
\* strings were first seen; names_id and id_names are inverse maps of size
\* num_items; every string keeps the id it was given first.
C2_DenseBijection ==
    /\ DOMAIN id_names = 0 .. (num_items - 1)
    /\ num_items = Len(seen)
    /\ \A i \in 1 .. Len(seen) : id_names[i - 1] = seen[i]
    /\ DOMAIN names_id = Range(id_names)
    /\ Cardinality(DOMAIN names_id) = num_items
    /\ \A i \in DOMAIN id_names : names_id[id_names[i]] = i
    /\ \A s \in DOMAIN names_id : id_names[names_id[s]] = s
    /\ DOMAIN first_id = DOMAIN names_id
    /\ \A s \in DOMAIN first_id : names_id[s] = first_id[s]

\* a table holding several names, read after they were interned
C2_Witness ==
    /\ num_items >= 2
    /\ call.op = "get_name_string"
    /\ call.str # <<>>

\* C3: a query of a string never interned returns None, get_name_string of
\* an unassigned id returns None, and neither call changes the table.
C3_QueryFrame ==
    [][ /\ call'.op = "query" =>
            /\ names_vars' = names_vars
            /\ call'.names[1] \notin DOMAIN names_id => call'.ids = <<NoneId>>
        /\ call'.op = "get_name_string" =>
            /\ names_vars' = names_vars
            /\ call'.num \notin DOMAIN id_names => call'.str = <<>>
      ]_vars

\* a query that found nothing in a table that holds names
C3_Witness ==
    /\ call.op = "query"
    /\ call.ids = <<NoneId>>
    /\ num_items >= 1

\* C4: each unique_error_codes(n) call returns a contiguous range of
\* exactly n integers, range(lo, lo + n), and no integer is returned by two
\* different calls.
C4_UniqueCodes ==
    /\ \A i \in DOMAIN codes : codes[i].hi - codes[i].lo = codes[i].n
    /\ \A i, j \in DOMAIN codes :
          i # j => PyRange(codes[i].lo, codes[i].hi)
                     \cap PyRange(codes[j].lo, codes[j].hi) = {}

----------------------------------------------------------------------------
(* Scanner: values *)

keywords_list ==
    << <<"D", "E", "V", "I", "C", "E", "S">>,
       <<"C", "O", "N", "N", "E", "C", "T">>,
       <<"M", "O", "N", "I", "T", "O", "R">>,
       <<"E", "N", "D">>,
       <<"C", "L", "O", "C", "K">>,
       <<"S", "W", "I", "T", "C", "H">>,
       <<"A", "N", "D">>,
       <<"N", "A", "N", "D">>,
       <<"O", "R">>,
       <<"N", "O", "R">>,
       <<"X", "O", "R">>,
       <<"D", "T", "Y", "P", "E">>,
       <<"D", "A", "T", "A">>,
       <<"C", "L", "K">>,
       <<"S", "E", "T">>,
       <<"C", "L", "E", "A", "R">>,
       <<"Q">>,
       <<"Q", "B", "A", "R">>,
       <<"I", "1">>,
       <<"I", "2">>,
       <<"I", "3">>,
       <<"I", "4">>,
       <<"I", "5">>,
       <<"I", "6">>,
       <<"I", "7">>,
       <<"I", "8">>,
       <<"I", "9">>,
       <<"I", "1", "0">>,
       <<"I", "1", "1">>,
       <<"I", "1", "2">>,
       <<"I", "1", "3">>,
       <<"I", "1", "4">>,
       <<"I", "1", "5">>,
       <<"I", "1", "6">>,
       <<"S", "I", "G", "G", "E", "N">> >>

SIGGEN_STR == <<"S", "I", "G", "G", "E", "N">>
SWITCH_STR == <<"S", "W", "I", "T", "C", "H">>

\* str.isalpha, str.isdigit and str.isalnum on one ASCII character
Upper == {"A", "B", "C", "D", "E", "F", "G", "H", "I", "J", "K", "L", "M",
          "N", "O", "P", "Q", "R", "S", "T", "U", "V", "W", "X", "Y", "Z"}
Lower == {"a", "b", "c", "d", "e", "f", "g", "h", "i", "j", "k", "l", "m",
          "n", "o", "p", "q", "r", "s", "t", "u", "v", "w", "x", "y", "z"}
DigitChars == <<"0", "1", "2", "3", "4", "5", "6", "7", "8", "9">>
isalpha(c) == c \in Upper \cup Lower
isdigit(c) == c \in Range(DigitChars)
isalnum(c) == isalpha(c) \/ isdigit(c)

\* int(num_str) of a non-empty run of digits
DigitValue(c) == (CHOOSE i \in DOMAIN DigitChars : DigitChars[i] = c) - 1
RECURSIVE PyInt(_)
PyInt(num_str) ==
    IF num_str = <<>> THEN 0
    ELSE PyInt(SubSeq(num_str, 1, Len(num_str) - 1)) * 10
           + DigitValue(num_str[Len(num_str)])

----------------------------------------------------------------------------
(* Scanner: the character source *)

\* The scanner's own fields as one value, for the operators that thread it.
ScannerNow == [FILE |-> FILE, position |-> position, line_number |-> line_number,
               current_character |-> current_character]

\* FILE.read(1): the next character, or "" at the end of the file
read(F) ==
    IF F.offset < Len(text)
    THEN [c |-> text[F.offset + 1], FILE |-> [F EXCEPT !.offset = @ + 1]]
    ELSE [c |-> "", FILE |-> F]

\* advance()
advance(S0) ==
    The({The({[S EXCEPT !.position = @ + 1, !.current_character = r.c,
                        !.FILE = r.FILE] :
                  r \in {read(S.FILE)}}) :
            S \in {S0}})

\* the offset in the file (from 1) of current_character; past the end at EOF
CurIndex(S) ==
    IF S.current_character = "" THEN Len(text) + 1 ELSE S.FILE.offset

\* skip_spaces()
RECURSIVE skip_spaces(_)
skip_spaces(S0) ==
    The({IF S.current_character \in {" ", "\t"}
         THEN The({skip_spaces(IF a.current_character = "\t"
                               THEN [a EXCEPT !.position = @ + 3]
                               ELSE a) :
                      a \in {advance(S)}})
         ELSE S :
            S \in {S0}})

\* a get_name that takes letters only
RECURSIVE get_name_letters_only(_, _)
get_name_letters_only(S0, name_str) ==
    The({IF S.current_character # "" /\ isalpha(S.current_character)
         THEN get_name_letters_only(advance(S), Append(name_str, S.current_character))
         ELSE [S |-> S, str |-> name_str] :
            S \in {S0}})

\* get_name(): the scanner after it and name_str
RECURSIVE get_name(_, _)
get_name(S0, name_str) ==
    The({IF S.current_character # "" /\ isalnum(S.current_character)
         THEN get_name(advance(S), Append(name_str, S.current_character))
         ELSE [S |-> S, str |-> name_str] :
            S \in {S0}})

\* the loop of get_number, get_waveform and get_bit: the scanner after it and
\* the run of digits
RECURSIVE digit_run(_, _)
digit_run(S0, num_str) ==
    The({IF isdigit(S.current_character)
         THEN digit_run(advance(S), Append(num_str, S.current_character))
         ELSE [S |-> S, str |-> num_str] :
            S \in {S0}})

\* get_number(): the scanner after it and the id returned
get_number(S) ==
    The({[S |-> r.S, id |-> IdInt(PyInt(r.str))] : r \in {digit_run(S, <<>>)}})

\* get_waveform()
get_waveform(S) ==
    The({[S |-> r.S, id |-> IdStr(r.str)] : r \in {digit_run(S, <<>>)}})

\* a get_bit that returns the value of a run of any length
get_bit_any_length(S) ==
    The({[S |-> r.S, id |-> IdInt(PyInt(r.str))] : r \in {digit_run(S, <<>>)}})

\* get_bit()
get_bit(S) ==
    The({[S |-> r.S, id |-> IF Len(r.str) > 1 THEN IdInt(2) ELSE IdInt(PyInt(r.str))] :
            r \in {digit_run(S, <<>>)}})

----------------------------------------------------------------------------
(* Scanner: get_symbol *)

\* a block comment loop that takes the "/" of "/*/" for the closing one
RECURSIVE block_comment_closed_early(_, _)
block_comment_closed_early(S0, comment_flag) ==
    The({
        IF S.current_character = "/"
        THEN [S |-> S, eof |-> FALSE]
        ELSE LET S1 == IF S.current_character = "\n"
                       THEN [S EXCEPT !.line_number = @ + 1, !.position = 0]
                       ELSE S
             IN  IF S.current_character = ""
                 THEN [S |-> advance(S1), eof |-> TRUE]
                 ELSE block_comment_closed_early(advance(S1), comment_flag) :
        S \in {S0}})

\* the inner loop of a block comment, entered after "/*" with comment_flag
\* True: every character sets the flag and a "*" then clears it, so the loop
\* ends on a "/" that directly follows a "*" read inside the loop. The scanner
\* where the loop ends, and whether it ended at the end of the file (where
\* get_symbol returns EOF) instead of at the closing "*/"
RECURSIVE block_comment(_, _)
block_comment(S0, comment_flag) ==
    The({
        IF S.current_character = "/" /\ ~comment_flag
        THEN [S |-> S, eof |-> FALSE]
        ELSE LET S1 == IF S.current_character = "\n"
                       THEN [S EXCEPT !.line_number = @ + 1, !.position = 0]
                       ELSE S
             IN  IF S.current_character = ""
                 THEN [S |-> advance(S1), eof |-> TRUE]
                 ELSE block_comment(advance(S1), S.current_character # "*") :
        S \in {S0}})

\* the loop of a "#" comment: it ends on the newline, or at the end of the file
RECURSIVE line_comment(_)
line_comment(S0) ==
    The({IF S.current_character = "\n" THEN [S |-> S, eof |-> FALSE]
         ELSE IF S.current_character = "" THEN [S |-> advance(S), eof |-> TRUE]
         ELSE line_comment(advance(S)) :
            S \in {S0}})

\* the loop over comments and newlines that opens get_symbol: the scanner
\* after it, the symbol so far (sym), the file offset start of the character
\* the symbol stands for (the end of the file for EOF), and whether
\* get_symbol returns from inside the loop
RECURSIVE skip_comments(_, _, _)
skip_comments(S0, sym0, start) ==
    The({
        IF S.current_character = "/"
        THEN The({
                 IF S1.current_character = "*"
                 THEN The({
                          IF b.eof
                          THEN [S |-> b.S, symbol |-> [sym1 EXCEPT !.type = EOF],
                                start |-> Len(text) + 1, returned |-> TRUE]
                          ELSE skip_comments(skip_spaces(advance(b.S)), sym1,
                                             CurIndex(S)) :
                          b \in {block_comment(advance(S1), TRUE)}})
                 ELSE [S |-> S1, symbol |-> sym1, start |-> CurIndex(S),
                       returned |-> TRUE] :
                 S1 \in {advance(S)},
                 sym1 \in {[sym EXCEPT !.line_number = S.line_number,
                                       !.position = S.position]}})
        ELSE IF S.current_character = "#"
        THEN The({
                 IF c.eof
                 THEN [S |-> c.S, symbol |-> [sym EXCEPT !.type = EOF],
                       start |-> Len(text) + 1, returned |-> TRUE]
                 ELSE skip_comments(skip_spaces(c.S), sym, start) :
                 c \in {line_comment(S)}})
        ELSE IF S.current_character = "\n"
        THEN skip_comments(
                 skip_spaces(advance([S EXCEPT !.line_number = @ + 1, !.position = 0])),
                 sym, start)
        ELSE [S |-> S, symbol |-> sym, start |-> start, returned |-> FALSE] :
        S \in {S0}, sym \in {sym0}})

\* the branch of get_symbol for a name: the symbol is a KEYWORD when the name
\* is in keywords_list and a NAME otherwise, and its id is the name's id
name_symbol(sym, name_str, name_id) ==
    [sym EXCEPT !.type = IF name_str \in Range(keywords_list) THEN KEYWORD ELSE NAME,
                !.id = IdInt(name_id)]

\* the branch of get_symbol for a number: which reader the last name selects
number_id(S, last_name) ==
    IF last_name = SIGGEN_STR THEN get_waveform(S)
    ELSE IF last_name = SWITCH_STR THEN get_bit(S)
    ELSE get_number(S)

\* one-character symbols without the branch for the comma
punctuation_no_comma(c) ==
    IF c = ";" THEN SEMICOLON
    ELSE IF c = ">" THEN ARROW
    ELSE IF c = "," THEN NoneType
    ELSE IF c = ":" THEN COLON
    ELSE DOT

\* the one-character symbols
punctuation(c) ==
    IF c = ";" THEN SEMICOLON
    ELSE IF c = ">" THEN ARROW
    ELSE IF c = "," THEN COMMA
    ELSE IF c = ":" THEN COLON
    ELSE DOT

\* a symbol placed at a column counted from 0
place_from_zero(S, sym) ==
    [sym EXCEPT !.position = S.position - 1, !.line_number = S.line_number]

\* the position and line number a symbol is given once comments are skipped
place(S, sym) ==
    [sym EXCEPT !.position = S.position, !.line_number = S.line_number]

\* get_symbol(): the scanner, the table and name_string after it, the symbol
\* returned and the file offset of the character it was positioned at
get_symbol(S0, N, last_name) ==
    The({
    LET S == k.S
        c == S.current_character
        sym == place(S, k.symbol)
        here == CurIndex(S)
    IN  IF k.returned
        THEN [S |-> S, N |-> N, name_string |-> last_name,
              symbol |-> k.symbol, start |-> k.start]
        ELSE IF isalpha(c)
        THEN The({The({[S |-> g.S, N |-> l.N, name_string |-> g.str,
                        symbol |-> name_symbol(sym, g.str, l.ids[1]),
                        start |-> here] :
                          l \in {lookup(N, <<g.str>>)}}) :
                     g \in {get_name(S, <<>>)}})
        ELSE IF isdigit(c)
        THEN The({[S |-> g.S, N |-> N, name_string |-> last_name,
                   symbol |-> [sym EXCEPT !.id = g.id, !.type = NUMBER],
                   start |-> here] :
                     g \in {number_id(S, last_name)}})
        ELSE IF c \in {";", ">", ",", ":", "."}
        THEN [S |-> advance(S), N |-> N, name_string |-> last_name,
              symbol |-> [sym EXCEPT !.type = punctuation(c)], start |-> here]
        ELSE IF c = ""
        THEN [S |-> [S EXCEPT !.FILE.closed = TRUE], N |-> N,
              name_string |-> last_name,
              symbol |-> [sym EXCEPT !.type = EOF], start |-> here]
        ELSE [S |-> advance(S), N |-> N, name_string |-> last_name,
              symbol |-> sym, start |-> here] :
    k \in {skip_comments(skip_spaces(S0), NewSymbol, 0)}})

SetScanner(S) ==
    /\ FILE' = S.FILE
    /\ position' = S.position
    /\ line_number' = S.line_number
    /\ current_character' = S.current_character

\* One call of get_symbol by a caller that, like the parser and the tests,
\* stops asking once it has been handed EOF.
GetSymbol ==
    /\ symbol.type # EOF
    /\ \E r \in {get_symbol(ScannerNow, NamesNow, name_string)} :
           /\ SetScanner(r.S)
           /\ SetNames(r.N)
           /\ name_string' = r.name_string
           /\ symbol' = r.symbol
           /\ symbols' = Append(symbols, [symbol |-> r.symbol, start |-> r.start])
    /\ UNCHANGED <<error_code_count, caller_vars, text, message, parser_vars, gui_vars, earlier, loops>>

----------------------------------------------------------------------------
(* Scanner: the files scanned *)

\* most pieces of layout in a file
MaxPieces == 4
\* most words in a file
MaxWords == 4

\* a name, spaces, tabs, newlines and what opens and closes comments; outside
\* a comment "/" and the "*" of "*/" are characters that start no token
LayoutPieces == {<<"A">>, <<" ">>, <<"\t">>, <<"\n">>, <<"#">>, <<"/">>,
                 <<"/", "*">>, <<"*", "/">>}

\* the keywords that select a number reader (each with the blank that ends
\* it), a one-letter keyword, digits and a separator
WordPieces == {SWITCH_STR \o <<" ">>, SIGGEN_STR \o <<" ">>, <<"Q">>,
               <<"0">>, <<"1">>, <<",">>}

\* every concatenation of at most n of the pieces
RECURSIVE Concats(_, _)
Concats(pieces, n) ==
    IF n = 0 THEN {<<>>}
    ELSE LET shorter == Concats(pieces, n - 1)
         IN  shorter \cup {q \o x : q \in shorter, x \in pieces}

Texts == Concats(LayoutPieces, MaxPieces) \cup Concats(WordPieces, MaxWords)

\* a fresh table after Scanner.__init__ has interned the keywords
KeywordNames == lookup(NamesInit, keywords_list).N

\* Scanner(path, names) for one of the files, table being the table once the
\* keywords are interned: the file is open and its first character is the
\* current one
NewScanner(files, table) ==
    /\ text \in files
    /\ error_code_count = 0
    /\ id_names = table.id_names
    /\ names_id = table.names_id
    /\ num_items = table.num_items
    /\ call = NoCall
    /\ first_id = <<>>
    /\ seen = <<>>
    /\ codes = <<>>
    /\ LET S == advance([FILE |-> [offset |-> 0, closed |-> FALSE], position |-> 0,
                         line_number |-> 1, current_character |-> ""])
       IN  /\ FILE = S.FILE
           /\ position = S.position
           /\ line_number = S.line_number
           /\ current_character = S.current_character
    /\ name_string = <<>>
    /\ symbol = NewSymbol
    /\ symbols = <<>>
    /\ message = NoMessage
    /\ ParserIdle

InitScanner == NewScanner(Texts, KeywordNames)

NextScanner == GetSymbol

\* a scanner asked for the symbols of its file, one after the other
SpecScanner == InitScanner /\ [][NextScanner]_vars

----------------------------------------------------------------------------
(* Scanner: print_error *)

\* most pieces in a file whose lines print_error shows
MaxLinePieces == 4

\* initialise_lines(): the lines of the file, each with the newline that
\* ends it; the last line has none when the file does not end with one
RECURSIVE initialise_lines(_)
initialise_lines(t) ==
    LET ends == {j \in 1 .. Len(t) : t[j] = "\n"}
        first == CHOOSE j \in ends : \A k \in ends : j <= k
    IN  IF t = <<>> THEN <<>>
        ELSE IF ends = {} THEN <<t>>
        ELSE <<SubSeq(t, 1, first)>> \o initialise_lines(SubSeq(t, first + 1, Len(t)))

\* " " * n
Spaces(n) == [i \in 1 .. n |-> " "]

LINE_OUT_OF_RANGE == <<"Line number out of range.">>

\* print_error(symbol), lines being self.lines
print_error(lines, sym) ==
    IF 1 <= sym.line_number /\ sym.line_number <= Len(lines) - 1
    THEN lines[sym.line_number] \o Spaces(sym.position - 1) \o <<"^">>
    ELSE IF sym.line_number = Len(lines)
    THEN lines[sym.line_number] \o <<"\n">> \o Spaces(sym.position - 1) \o <<"^">>
    ELSE LINE_OUT_OF_RANGE

\* print_error called with the Symbol get_symbol returned last
PrintError ==
    /\ symbols # <<>>
    /\ message' = [called |-> TRUE, symbol |-> symbol,
                   text |-> print_error(initialise_lines(text), symbol)]
    /\ UNCHANGED <<error_code_count, names_vars, caller_vars, scanner_vars, parser_vars, gui_vars, earlier, loops>>

\* a name, blanks and newlines: files of one or more lines, the last one
\* with or without the newline that ends it
LinePieces == {<<"A">>, <<" ">>, <<"\n">>}

InitLines == NewScanner(Concats(LinePieces, MaxLinePieces), KeywordNames)

NextLines == GetSymbol \/ PrintError

\* a scanner whose caller shows where the symbols it is handed stand
SpecLines == InitLines /\ [][NextLines]_vars

----------------------------------------------------------------------------
(* Devices, Network and Monitors, as the parser uses them *)

\* Devices(names) interns the strings of its kinds and of the D-type ports
\* before the scanner interns keywords_list
device_strings ==
    << <<"A", "N", "D">>, <<"O", "R">>, <<"N", "A", "N", "D">>, <<"N", "O", "R">>,
       <<"X", "O", "R">>, <<"C", "L", "O", "C", "K">>, SWITCH_STR,
       <<"D", "T", "Y", "P", "E">>, SIGGEN_STR, <<"C", "L", "K">>,
       <<"S", "E", "T">>, <<"C", "L", "E", "A", "R">>, <<"D", "A", "T", "A">>,
       <<"Q">>, <<"Q", "B", "A", "R">> >>

\* the table after Devices(names) and Scanner(path, names), and the ids
\* Scanner.__init__ was given for keywords_list
DevicesNames == lookup(NamesInit, device_strings).N
ScannerLookup == lookup(DevicesNames, keywords_list)
ParserNames == ScannerLookup.N
DEVICES_ID == ScannerLookup.ids[1]
CONNECT_ID == ScannerLookup.ids[2]
MONITOR_ID == ScannerLookup.ids[3]
END_ID == ScannerLookup.ids[4]
CLOCK_ID == ScannerLookup.ids[5]
SWITCH_ID == ScannerLookup.ids[6]
AND_ID == ScannerLookup.ids[7]
NAND_ID == ScannerLookup.ids[8]
OR_ID == ScannerLookup.ids[9]
NOR_ID == ScannerLookup.ids[10]
XOR_ID == ScannerLookup.ids[11]
DTYPE_ID == ScannerLookup.ids[12]
DATA_ID == ScannerLookup.ids[13]
CLK_ID == ScannerLookup.ids[14]
SET_ID == ScannerLookup.ids[15]
CLEAR_ID == ScannerLookup.ids[16]
Q_ID == ScannerLookup.ids[17]
QBAR_ID == ScannerLookup.ids[18]
SIGGEN_ID == ScannerLookup.ids[35]
\* the id of the gate input port Ik, k in 1 .. 16
I_ID(k) == ScannerLookup.ids[18 + k]

device_id_list == {CLOCK_ID, SWITCH_ID, AND_ID, NAND_ID, OR_ID, NOR_ID, XOR_ID,
                   DTYPE_ID, SIGGEN_ID}
section_ids == {DEVICES_ID, CONNECT_ID, MONITOR_ID, END_ID}

\* an input that no connection drives
UNCONNECTED == <<>>

\* a port as the key of Device.inputs or Device.outputs: a Names id, NoneId
\* for the one output of a device that has one, and for a Symbol id that is
\* a string a key that no device has
StrKey == -2
PortKey(id) == IF id.k = "int" THEN id.n ELSE IF id.k = "None" THEN NoneId ELSE StrKey

\* the device a kind and its property make: all inputs unconnected
NewDevice(kind, input_ids, output_ids) ==
    [device_kind |-> kind, inputs |-> [i \in input_ids |-> UNCONNECTED],
     outputs |-> output_ids]

GateKinds == {"AND", "NAND", "OR", "NOR"}

\* Devices.make_device(device_id, device_kind, device_property): the device
\* table after it and the result
make_device(devices, device_id, kind, property) ==
    LET made(d) == [devices |-> DictSet(devices, device_id, d), error |-> "NO_ERROR"]
        failed(e) == [devices |-> devices, error |-> e]
    IN  IF device_id \in DOMAIN devices THEN failed("DEVICE_PRESENT")
        ELSE IF kind \in {"XOR", "DTYPE"}
        THEN IF property # IdNone THEN failed("QUALIFIER_PRESENT")
             ELSE IF kind = "XOR"
             THEN made(NewDevice(kind, {I_ID(1), I_ID(2)}, {NoneId}))
             ELSE made(NewDevice(kind, {DATA_ID, CLK_ID, SET_ID, CLEAR_ID},
                                 {Q_ID, QBAR_ID}))
        ELSE IF property = IdNone THEN failed("NO_QUALIFIER")
        ELSE IF kind \in GateKinds
        THEN IF property.k = "int" /\ property.n \in 1 .. 16
             THEN made(NewDevice(kind, {I_ID(k) : k \in 1 .. property.n}, {NoneId}))
             ELSE failed("INVALID_QUALIFIER")
        ELSE IF kind = "CLOCK"
        THEN IF property.k = "int" /\ property.n >= 1
             THEN made(NewDevice(kind, {}, {NoneId}))
             ELSE failed("INVALID_QUALIFIER")
        ELSE IF kind = "SWITCH"
        THEN IF property.k = "int" /\ property.n \in {0, 1}
             THEN made(NewDevice(kind, {}, {NoneId}))
             ELSE failed("INVALID_QUALIFIER")
        ELSE \* SIGGEN
             IF property.k = "str" /\ property.s # <<>>
                    /\ \A i \in DOMAIN property.s : property.s[i] \in {"0", "1"}
             THEN made(NewDevice(kind, {}, {NoneId}))
             ELSE failed("INVALID_QUALIFIER")

\* Network.make_connection(first_device, first_port, second_device,
\* second_port), called by the parser with the driving signal first
make_connection(devices, first_device, first_port, second_device, second_port) ==
    LET failed(e) == [devices |-> devices, error |-> e]
    IN  IF first_device \notin DOMAIN devices \/ second_device \notin DOMAIN devices
        THEN failed("DEVICE_ABSENT")
        ELSE LET a == devices[first_device]
                 b == devices[second_device]
             IN  IF first_port \in DOMAIN a.inputs
                 THEN failed("INPUT_TO_INPUT")
                 ELSE IF first_port \notin a.outputs THEN failed("PORT_ABSENT")
                 ELSE IF second_port \in b.outputs THEN failed("OUTPUT_TO_OUTPUT")
                 ELSE IF second_port \notin DOMAIN b.inputs THEN failed("PORT_ABSENT")
                 ELSE IF b.inputs[second_port] # UNCONNECTED
                 THEN failed("INPUT_CONNECTED")
                 ELSE [devices |-> [devices EXCEPT ![second_device].inputs[second_port]
                                                      = <<first_device, first_port>>],
                       error |-> "NO_ERROR"]

\* Network.check_network(): every input of every device is connected
check_network(devices) ==
    \A d \in DOMAIN devices :
        \A i \in DOMAIN devices[d].inputs : devices[d].inputs[i] # UNCONNECTED

\* Monitors.make_monitor(device_id, output_id): the monitors after it and the
\* result
make_monitor(devices, monitors, device_id, output_id) ==
    IF device_id \notin DOMAIN devices
    THEN [monitors |-> monitors, error |-> "DEVICE_ABSENT"]
    ELSE IF output_id \notin devices[device_id].outputs
    THEN [monitors |-> monitors, error |-> "NOT_OUTPUT"]
    ELSE IF <<device_id, output_id>> \in DOMAIN monitors
    THEN [monitors |-> monitors, error |-> "MONITOR_PRESENT"]
    ELSE [monitors |-> DictSet(monitors, <<device_id, output_id>>, <<>>),
          error |-> "NO_ERROR"]

\* Monitors.get_signal_names(): the monitored outputs and the other outputs
get_signal_names(devices, monitors) ==
    LET all == {<<d, o>> : d \in DOMAIN devices, o \in {NoneId, Q_ID, QBAR_ID}}
        outs == {s \in all : s[2] \in devices[s[1]].outputs}
    IN  <<outs \cap DOMAIN monitors, outs \ DOMAIN monitors>>

----------------------------------------------------------------------------
(* Parser: devices *)

\* The parser and what it holds as one value P, for the operators that
\* thread it: the scanner S, the table N, name_string and the symbols handed
\* out so far; Parser.symbol, parent and error_count; the devices and
\* monitors built; the diagnostics printed, each with the symbol it was
\* printed for; and whether an exception has been raised.
NO_PARENT == "None"

\* self.symbol = self.scanner.get_symbol()
Scan(P0) ==
    The({The({[P EXCEPT !.S = r.S, !.N = r.N, !.name_string = r.name_string,
                        !.symbol = r.symbol,
                        !.symbols = Append(@, [symbol |-> r.symbol, start |-> r.start])] :
                  r \in {get_symbol(P.S, P.N, P.name_string)}}) :
            P \in {P0}})

\* symbol.id in [DEVICES_ID, CONNECT_ID, MONITOR_ID, END_ID]
IsSection(sym) == sym.id.k = "int" /\ sym.id.n \in section_ids

\* the kind Devices knows a device type keyword by
KindOf(device_type_id) ==
    CASE device_type_id = XOR_ID -> "XOR"
      [] device_type_id = DTYPE_ID -> "DTYPE"
      [] device_type_id = AND_ID -> "AND"
      [] device_type_id = OR_ID -> "OR"
      [] device_type_id = NAND_ID -> "NAND"
      [] device_type_id = NOR_ID -> "NOR"
      [] device_type_id = CLOCK_ID -> "CLOCK"
      [] device_type_id = SIGGEN_ID -> "SIGGEN"
      [] device_type_id = SWITCH_ID -> "SWITCH"

\* make_device_parser(device_id, device_type_id): the parser after it and the
\* error returned. A result of make_device that the branch of the kind does
\* not translate (DEVICE_PRESENT for every kind but XOR and DTYPE) is
\* returned as Devices numbers it.
make_device_parser(P0, device_id, device_type_id) ==
    The({The({
        LET kind == KindOf(device_type_id)
            Q == [P EXCEPT !.devices = made.devices]
        IN  IF kind \in {"XOR", "DTYPE"}
            THEN [P |-> Q,
                  error |-> IF made.error = "DEVICE_PRESENT" THEN "REPEATED_DEVICE"
                            ELSE made.error]
            ELSE IF kind \in GateKinds
            THEN [P |-> Scan(Q),
                  error |-> CASE made.error = "NO_QUALIFIER" -> "NO_NUMBER"
                              [] made.error = "INVALID_QUALIFIER" -> "INVALID_RANGE"
                              [] OTHER -> made.error]
            ELSE IF kind = "CLOCK"
            THEN IF P.symbol.type # NUMBER
                 THEN [P |-> Scan(P), error |-> "NO_PERIOD"]
                 ELSE [P |-> Scan(Q),
                       error |-> CASE made.error = "NO_QUALIFIER" -> "NO_PERIOD"
                                   [] made.error = "INVALID_QUALIFIER" -> "CLOCK_PERIOD_ZERO"
                                   [] OTHER -> made.error]
            ELSE IF kind = "SIGGEN"
            THEN IF P.symbol.type # NUMBER
                 THEN [P |-> Scan(P), error |-> "NO_WAVEFORM"]
                 ELSE [P |-> Scan(Q),
                       error |-> CASE made.error = "NO_QUALIFIER" -> "NO_WAVEFORM"
                                   [] made.error = "INVALID_QUALIFIER" -> "NONBINARY_WAVEFORM"
                                   [] OTHER -> made.error]
            ELSE \* SWITCH
                 IF made.error = "NO_QUALIFIER" THEN [P |-> Q, error |-> "NOT_BIT"]
                 ELSE [P |-> Scan(Q),
                       error |-> IF made.error = "INVALID_QUALIFIER" THEN "NOT_BIT"
                                 ELSE made.error] :
            made \in {make_device(P.devices, device_id, KindOf(device_type_id),
                                  P.symbol.id)}}) :
        P \in {Scan(P0)}})

\* device(): the parser after it and the error returned
device(P0) ==
    The({
        IF P.symbol.type = NAME
        THEN The({
                 IF P1.symbol.type = COLON
                 THEN The({
                          IF P2.symbol.type = KEYWORD /\ P2.symbol.id.n \in device_id_list
                          THEN make_device_parser(P2, P.symbol.id.n, P2.symbol.id.n)
                          ELSE [P |-> P2, error |-> "NO_DEVICE_TYPE"] :
                          P2 \in {Scan(P1)}})
                 ELSE [P |-> P1, error |-> "NO_COLON"] :
                 P1 \in {Scan(P)}})
        ELSE IF IsSection(P.symbol) THEN [P |-> P, error |-> "MISSED_SEMICOLON"]
        ELSE [P |-> P, error |-> "INVALID_NAME"] :
        P \in {P0}})

----------------------------------------------------------------------------
(* Parser: connections and monitors *)

NoSignal == <<NoneId, NoneId>>

\* in_signame(): the parser after it and either an error or the signal
\* [device_id, port_id] ("NO_ERROR" stands for a signal returned)
in_signame(P0) ==
    LET failed(Q, e) == [P |-> Q, error |-> e, signal |-> NoSignal]
    IN  The({
        IF P.symbol.type = NAME
        THEN LET device_id == P.symbol.id.n
             IN  IF device_id \notin DOMAIN P.devices THEN failed(P, "DEVICE_ABSENT")
                 ELSE The({
                     IF P.devices[device_id].device_kind # "DTYPE"
                     THEN IF P1.symbol.type = DOT
                          THEN IF P.devices[device_id].device_kind
                                      \in {"SWITCH", "CLOCK", "SIGGEN"}
                               THEN failed(P1, "DOT")
                               ELSE failed(P1, "INPUT_TO_INPUT")
                          ELSE [P |-> P1, error |-> "NO_ERROR",
                                signal |-> <<device_id, NoneId>>]
                     ELSE IF P1.symbol.type = DOT
                     THEN The({
                              LET port_id == PortKey(P2.symbol.id)
                              IN  IF port_id \notin {Q_ID, QBAR_ID}
                                  THEN failed(P2, "INVALID_PORT")
                                  ELSE [P |-> Scan(P2), error |-> "NO_ERROR",
                                        signal |-> <<device_id, port_id>>] :
                              P2 \in {Scan(P1)}})
                     ELSE failed(P1, "NO_DOT") :
                     P1 \in {Scan(P)}})
        ELSE IF IsSection(P.symbol) THEN failed(P, "MISSED_SEMICOLON")
        ELSE failed(P, "INVALID_NAME") :
        P \in {P0}})

\* out_signame(): as in_signame. name[0] raises TypeError when
\* get_name_string finds no name for the id of the symbol after the dot.
out_signame(P0) ==
    LET failed(Q, e) == [P |-> Q, error |-> e, signal |-> NoSignal]
    IN  The({
        IF P.symbol.type = NAME
        THEN LET device_id == P.symbol.id.n
             IN  IF device_id \notin DOMAIN P.devices THEN failed(P, "DEVICE_ABSENT")
                 ELSE IF P.devices[device_id].device_kind \in {"SWITCH", "CLOCK", "SIGGEN"}
                 THEN failed(P, "INVALID_CONNECTION_SC")
                 ELSE The({
                     IF P1.symbol.type = DOT
                     THEN The({
                              LET port_id == PortKey(P2.symbol.id)
                                  kind == P.devices[device_id].device_kind
                                  name == get_name_string(P2.N, port_id)
                              IN  IF port_id \notin DOMAIN P.devices[device_id].inputs
                                  THEN IF kind = "DTYPE"
                                       THEN IF port_id \in {Q_ID, QBAR_ID}
                                            THEN failed(P2, "OUTPUT_TO_OUTPUT")
                                            ELSE failed(P2, "INVALID_PORT_DTYPE")
                                       ELSE IF kind = "XOR"
                                       THEN failed(P2, "INVALID_PORT_XOR")
                                       ELSE IF name = <<>>
                                       THEN failed([P2 EXCEPT !.raised = TRUE], "TypeError")
                                       ELSE IF name[1][1] # "I"
                                       THEN failed(P2, "NOT_I_PORT")
                                       ELSE failed(P2, "PORT_OUT_RANGE")
                                  ELSE [P |-> Scan(P2), error |-> "NO_ERROR",
                                        signal |-> <<device_id, port_id>>] :
                              P2 \in {Scan(P1)}})
                     ELSE failed(P1, "OUTPUT_TO_OUTPUT") :
                     P1 \in {Scan(P)}})
        ELSE failed(P, "INVALID_NAME") :
        P \in {P0}})

\* connection(): the parser after it and the error returned
connection(P0) ==
    The({
        IF in_signal.error # "NO_ERROR"
        THEN [P |-> in_signal.P, error |-> in_signal.error]
        ELSE IF in_signal.P.symbol.type # ARROW
        THEN [P |-> in_signal.P, error |-> "NO_ARROW"]
        ELSE The({
                 IF out_signal.error # "NO_ERROR"
                 THEN [P |-> out_signal.P, error |-> out_signal.error]
                 ELSE The({[P |-> [out_signal.P EXCEPT !.devices = made.devices],
                            error |-> made.error] :
                              made \in {make_connection(
                                            out_signal.P.devices,
                                            in_signal.signal[1], in_signal.signal[2],
                                            out_signal.signal[1], out_signal.signal[2])}}) :
                 out_signal \in {out_signame(Scan(in_signal.P))}}) :
        in_signal \in {in_signame(P0)}})

\* monitor(): the parser after it and the error returned
monitor(P0) ==
    LET translate(e) == CASE e = "NOT_OUTPUT" -> "INVALID_PORT"
                          [] e = "MONITOR_PRESENT" -> "REPEATED_MONITOR"
                          [] OTHER -> e
    IN  The({
        IF P.symbol.type = NAME
        THEN The({
                 IF P1.symbol.type = DOT
                 THEN The({The({[P |-> Scan([P2 EXCEPT !.monitors = made.monitors]),
                                 error |-> translate(made.error)] :
                                   made \in {make_monitor(P2.devices, P2.monitors,
                                                          P.symbol.id.n,
                                                          PortKey(P2.symbol.id))}}) :
                          P2 \in {Scan(P1)}})
                 ELSE The({[P |-> [P1 EXCEPT !.monitors = made.monitors],
                            error |-> translate(made.error)] :
                              made \in {make_monitor(P1.devices, P1.monitors,
                                                     P.symbol.id.n, NoneId)}}) :
                 P1 \in {Scan(P)}})
        ELSE IF IsSection(P.symbol) THEN [P |-> P, error |-> "MISSED_SEMICOLON"]
        ELSE [P |-> P, error |-> "INVALID_NAME"] :
        P \in {P0}})

----------------------------------------------------------------------------
(* Parser: errors, lists and parse_network *)

\* error_count += 1 and the lines printed with it: the message (named by the
\* error it is printed for), the symbol print_error points at and its place
\* among the symbols read; type is the error error() was called for,
\* recovering tells the diagnostics that the loop ending error() prints from
\* the one printed first, and parent is Parser.parent at that moment
Diagnose(P0, e, type, recovering) ==
    The({[P EXCEPT !.error_count = @ + 1,
                   !.errors = Append(@, [error |-> e, type |-> type,
                                         symbol |-> P.symbol,
                                         at |-> Len(P.symbols), parent |-> P.parent,
                                         recovering |-> recovering])] :
            P \in {P0}})

Report(P, e) == Diagnose(P, e, e, FALSE)

\* a recovery that stops at a section keyword without a word
RECURSIVE recover_unreported(_, _)
recover_unreported(P0, stopping_punctuation_flag) ==
    The({
        IF R.symbol.type = EOF
        THEN [Diagnose(R, "NO_END", "NO_END", TRUE) EXCEPT !.parent = NO_PARENT]
        ELSE The({
                 IF P.parent # NO_PARENT /\ P.symbol.type = COMMA THEN P
                 ELSE IF P.symbol.type = SEMICOLON
                 THEN [Scan(P) EXCEPT !.parent = NO_PARENT]
                 ELSE IF IsSection(P.symbol)
                 THEN [P EXCEPT !.parent = NO_PARENT]
                 ELSE recover_unreported(P, stopping_punctuation_flag) :
                 P \in {Scan(R)}}) :
        R \in {P0}})

\* the loop that ends error(): symbols are read up to a comma (inside a
\* list), past a semicolon, up to a section keyword or to the end of the
\* file, where the missing END is reported
RECURSIVE recover(_, _)
recover(P0, stopping_punctuation_flag) ==
    The({
        IF R.symbol.type = EOF
        THEN [Diagnose(R, "NO_END", "NO_END", TRUE) EXCEPT !.parent = NO_PARENT]
        ELSE The({
                 IF P.parent # NO_PARENT /\ P.symbol.type = COMMA THEN P
                 ELSE IF P.symbol.type = SEMICOLON
                 THEN [Scan(P) EXCEPT !.parent = NO_PARENT]
                 ELSE IF IsSection(P.symbol)
                 THEN IF stopping_punctuation_flag
                      THEN [P EXCEPT !.parent = NO_PARENT]
                      ELSE Diagnose([P EXCEPT !.parent = NO_PARENT],
                                    "MISSED_SEMICOLON", "MISSED_SEMICOLON", TRUE)
                 ELSE recover(P, stopping_punctuation_flag) :
                 P \in {Scan(R)}}) :
        R \in {P0}})

\* an error() that does not stop at the comma it is called at
error_past_comma(P0, error_type) ==
    The({
        IF error_type = "MISSED_SEMICOLON" \/ IsSection(P.symbol)
        THEN Diagnose([P EXCEPT !.parent = NO_PARENT], "MISSED_SEMICOLON",
                      error_type, FALSE)
        ELSE The({
                 IF R.symbol.type = SEMICOLON
                 THEN [Scan(R) EXCEPT !.parent = NO_PARENT]
                 ELSE recover(R, error_type = "NO_SEMICOLON") :
                 R \in {Report(P, error_type)}}) :
        P \in {P0}})

\* error(error_type)
error(P0, error_type) ==
    The({
        IF error_type = "MISSED_SEMICOLON" \/ IsSection(P.symbol)
        THEN Diagnose([P EXCEPT !.parent = NO_PARENT], "MISSED_SEMICOLON",
                      error_type, FALSE)
        ELSE The({
                 IF R.symbol.type = COMMA /\ R.parent # NO_PARENT THEN R
                 ELSE IF R.symbol.type = SEMICOLON
                 THEN [Scan(R) EXCEPT !.parent = NO_PARENT]
                 ELSE recover(R, error_type = "NO_SEMICOLON") :
                 R \in {Report(P, error_type)}}) :
        P \in {P0}})

\* the item of the list of a section
item(P, section) ==
    CASE section = "D" -> device(P)
      [] section = "C" -> connection(P)
      [] section = "M" -> monitor(P)

\* the parser after an item of a list: error() is called for the error the
\* item returned (an exception passes through)
after_item(r0) ==
    The({IF r.P.raised \/ r.error = "NO_ERROR" THEN r.P ELSE error(r.P, r.error) :
            r \in {r0}})

\* the loop of device_list, connection_list and monitor_list
RECURSIVE more_items(_, _)
more_items(P0, section) ==
    The({
        IF P.raised \/ P.parent = NO_PARENT THEN P
        ELSE IF P.symbol.type = COMMA
        THEN more_items(after_item(item(Scan(P), section)), section)
        ELSE IF P.symbol.type = SEMICOLON THEN Scan(P)
        ELSE more_items(error(P, "NO_SEMICOLON"), section) :
        P \in {P0}})

device_list(P) == more_items(after_item(device(P)), "D")
connection_list(P) == more_items(after_item(connection(P)), "C")
monitor_list(P) == more_items(after_item(monitor(P)), "M")

\* end_of_file()
end_of_file(P0) ==
    The({IF P.symbol.type # EOF THEN error(P, "NOT_END") ELSE P : P \in {P0}})

\* the loop of parse_network over the sections of the file
RECURSIVE sections(_)
sections(P0) ==
    LET done(Q0) ==
            The({IF Q.raised THEN Q ELSE sections([Q EXCEPT !.parent = NO_PARENT]) :
                    Q \in {Q0}})
    IN  The({
        LET is(id) == P.symbol.id.k = "int" /\ P.symbol.id.n = id
            list(section) == Scan([P EXCEPT !.parent = section])
        IN  IF P.raised \/ P.symbol.type = EOF THEN P
            ELSE IF is(DEVICES_ID) THEN done(device_list(list("D")))
            ELSE IF is(CONNECT_ID) THEN done(connection_list(list("C")))
            ELSE IF is(MONITOR_ID) THEN done(monitor_list(list("M")))
            ELSE IF is(END_ID) THEN end_of_file(Scan(P))
            ELSE done(error(P, "NO_INITIALISATION_KEYWORD")) :
        P \in {P0}})

\* a parse_network that does not ask the network whether it is complete
network_check_skipped(P0) == P0

\* the test of the network after the loop: one diagnostic when no other was
\* counted and check_network() fails
network_check(P0) ==
    The({IF P.error_count = 0 /\ ~check_network(P.devices)
         THEN Report(P, "NETWORK") ELSE P :
            P \in {P0}})

\* a parse_network that takes a file that declares nothing
empty_check_skipped(P0) == P0

\* the test for an empty file: one diagnostic when none was counted and
\* there is no device and no signal, monitored or not
empty_check(P0) ==
    The({
        LET names == get_signal_names(P.devices, P.monitors)
        IN  IF P.error_count = 0 /\ DOMAIN P.devices = {}
                   /\ names[1] = {} /\ names[2] = {}
            THEN Report(P, "EMPTY_FILE") ELSE P :
        P \in {P0}})

\* parse_network(): the parser after it and what it returned
parse_network(P0) ==
    The({
        IF P.raised THEN [P |-> P, returned |-> "raised"]
        ELSE The({[P |-> checked,
                   returned |-> IF checked.error_count > 0 THEN "False" ELSE "True"] :
                     checked \in {empty_check(network_check(P))}}) :
        P \in {sections(Scan(P0))}})

\* The parser's own fields and what it holds, as one value
ParserNow ==
    [S |-> ScannerNow, N |-> NamesNow, name_string |-> name_string,
     symbol |-> symbol, symbols |-> symbols, parent |-> parent,
     error_count |-> error_count, devices |-> devices_list,
     monitors |-> monitors_dictionary,
     errors |-> errors, raised |-> FALSE]

\* parse_network() on a parser that has not parsed yet
ParseNetwork ==
    /\ returned = "none"
    /\ \E r \in {parse_network(ParserNow)} :
           /\ SetScanner(r.P.S)
           /\ SetNames(r.P.N)
           /\ name_string' = r.P.name_string
           /\ symbol' = r.P.symbol
           /\ symbols' = r.P.symbols
           /\ parent' = r.P.parent
           /\ error_count' = r.P.error_count
           /\ devices_list' = r.P.devices
           /\ monitors_dictionary' = r.P.monitors
           /\ errors' = r.P.errors
           /\ returned' = r.returned
    /\ UNCHANGED <<error_code_count, caller_vars, text, message, gui_vars, earlier, loops>>

----------------------------------------------------------------------------
(* Parser: the definition files parsed *)

\* the words of ws, in order, with one blank after each
RECURSIVE Join(_)
Join(ws) == IF ws = <<>> THEN <<>> ELSE Head(ws) \o <<" ">> \o Join(Tail(ws))

\* the files made of one choice from each of the sets of word sequences of
\* parts, in order
RECURSIVE Files(_)
Files(parts) ==
    IF parts = <<>> THEN {<<>>}
    ELSE {Join(a) \o rest : a \in Head(parts), rest \in Files(Tail(parts))}

\* a DEVICES section: none, well formed ones, and ones with a missing comma,
\* semicolon, colon or parameter
DeviceSections ==
    { <<>>,
      <<<<"D", "E", "V", "I", "C", "E", "S">>, <<"S">>, <<":">>, <<"S", "W", "I", "T", "C", "H">>, <<"0">>, <<";">>>>,
      <<<<"D", "E", "V", "I", "C", "E", "S">>, <<"S">>, <<":">>, <<"S", "W", "I", "T", "C", "H">>, <<"0">>, <<",">>, <<"G">>, <<":">>, <<"N", "A", "N", "D">>, <<"1">>, <<";">>>>,
      <<<<"D", "E", "V", "I", "C", "E", "S">>, <<"S">>, <<":">>, <<"S", "W", "I", "T", "C", "H">>, <<"0">>, <<"G">>, <<":">>, <<"N", "A", "N", "D">>, <<"1">>, <<";">>>>,
      <<<<"D", "E", "V", "I", "C", "E", "S">>, <<"S">>, <<":">>, <<"S", "W", "I", "T", "C", "H">>, <<"0">>, <<",">>, <<"G">>, <<":">>, <<"N", "A", "N", "D">>, <<"1">>>>,
      <<<<"D", "E", "V", "I", "C", "E", "S">>, <<"G">>, <<":">>, <<"N", "A", "N", "D">>, <<",">>, <<"S">>, <<":">>, <<"S", "W", "I", "T", "C", "H">>, <<"0">>, <<";">>>>,
      <<<<"D", "E", "V", "I", "C", "E", "S">>, <<"S">>, <<"S", "W", "I", "T", "C", "H">>, <<"0">>, <<",">>, <<"G">>, <<":">>, <<"N", "A", "N", "D">>, <<"1">>, <<";">>>>,
      <<<<"D", "E", "V", "I", "C", "E", "S">>, <<"G">>, <<":">>, <<"N", "A", "N", "D">>, <<"1">>, <<";">>>> }

\* a CONNECT section: none, the connection of the gate, one without its
\* arrow, one without its semicolon, one with a dot after the switch and one
\* with no port after the dot of the gate
ConnectSections ==
    { <<>>,
      <<<<"C", "O", "N", "N", "E", "C", "T">>, <<"S">>, <<">">>, <<"G">>, <<".">>, <<"I", "1">>, <<";">>>>,
      <<<<"C", "O", "N", "N", "E", "C", "T">>, <<"S">>, <<"G">>, <<".">>, <<"I", "1">>, <<";">>>>,
      <<<<"C", "O", "N", "N", "E", "C", "T">>, <<"S">>, <<">">>, <<"G">>, <<".">>, <<"I", "1">>>>,
      <<<<"C", "O", "N", "N", "E", "C", "T">>, <<"S">>, <<".">>, <<">">>, <<"G">>, <<".">>, <<"I", "1">>, <<";">>>>,
      <<<<"C", "O", "N", "N", "E", "C", "T">>, <<"S">>, <<">">>, <<"G">>, <<".">>, <<";">>>> }

\* a MONITOR section: none, one or two monitors, a missing comma, a name
\* that is no device
MonitorSections ==
    { <<>>,
      <<<<"M", "O", "N", "I", "T", "O", "R">>, <<"S">>, <<";">>>>,
      <<<<"M", "O", "N", "I", "T", "O", "R">>, <<"S">>, <<",">>, <<"G">>, <<";">>>>,
      <<<<"M", "O", "N", "I", "T", "O", "R">>, <<"S">>, <<"G">>, <<";">>>>,
      <<<<"M", "O", "N", "I", "T", "O", "R">>, <<"A">>, <<";">>>> }

\* how the file ends: at once, with END, with END and more behind it, in a
\* block comment that is never closed (with an END inside it), with a
\* character that starts no token before END, or with one and a section
\* keyword behind END
Endings ==
    { <<>>,
      <<<<"E", "N", "D">>>>,
      <<<<"E", "N", "D">>, <<";">>, <<"D", "E", "V", "I", "C", "E", "S">>>>,
      <<<<"/", "*">>, <<"E", "N", "D">>>>,
      <<<<"?">>, <<"E", "N", "D">>>>,
      <<<<"E", "N", "D">>, <<"?">>, <<"D", "E", "V", "I", "C", "E", "S">>>> }

\* most devices in the list of a DEVICES section made of DeviceItems
MaxDeclared == 2

\* a device of a list: its name and the words that declare it, with its
\* parameter or without
DeviceItems ==
    { [name |-> "S", words |-> <<<<"S">>, <<":">>, <<"S", "W", "I", "T", "C", "H">>, <<"0">>>>],
      [name |-> "S", words |-> <<<<"S">>, <<":">>, <<"S", "W", "I", "T", "C", "H">>>>],
      [name |-> "G", words |-> <<<<"G">>, <<":">>, <<"N", "A", "N", "D">>, <<"1">>>>],
      [name |-> "G", words |-> <<<<"G">>, <<":">>, <<"N", "A", "N", "D">>>>],
      [name |-> "C", words |-> <<<<"C">>, <<":">>, <<"C", "L", "O", "C", "K">>, <<"1">>>>],
      [name |-> "C", words |-> <<<<"C">>, <<":">>, <<"C", "L", "O", "C", "K">>>>],
      [name |-> "W", words |-> <<<<"W">>, <<":">>, <<"S", "I", "G", "G", "E", "N">>, <<"0", "1">>>>],
      [name |-> "W", words |-> <<<<"W">>, <<":">>, <<"S", "I", "G", "G", "E", "N">>>>],
      [name |-> "X", words |-> <<<<"X">>, <<":">>, <<"X", "O", "R">>>>] }

\* the lists of at most n of the items, no two of the same name (a device is
\* declared once), with a comma or nothing between two items
RECURSIVE DeviceLists(_)
DeviceLists(n) ==
    IF n = 0 THEN {[names |-> {}, words |-> <<>>]}
    ELSE LET shorter == DeviceLists(n - 1)
             longer(l) ==
                 {[names |-> l.names \cup {d.name},
                   words |-> IF l.words = <<>> THEN d.words
                             ELSE l.words \o sep \o d.words] :
                      d \in {e \in DeviceItems : e.name \notin l.names},
                      sep \in {<<<<",">>>>, <<>>}}
         IN  shorter \cup
             UNION {longer(l) : l \in {k \in shorter : Cardinality(k.names) = n - 1}}

\* a file with a list of devices: the list, its semicolon or none, and the
\* rest of the file
ListFiles ==
    {Join(<<<<"D", "E", "V", "I", "C", "E", "S">>>> \o l.words \o semicolon \o rest) :
         l \in DeviceLists(MaxDeclared),
         semicolon \in {<<<<";">>>>, <<>>},
         rest \in {<<>>, <<<<"E", "N", "D">>>>, <<<<"M", "O", "N", "I", "T", "O", "R">>, <<"X">>, <<";">>, <<"E", "N", "D">>>>}}

\* the kinds of gate with a number of inputs
GateKeywords ==
    { <<<<"A", "N", "D">>>>,
      <<<<"N", "A", "N", "D">>>>,
      <<<<"O", "R">>>>,
      <<<<"N", "O", "R">>>> }

\* what follows the kind in the declaration of a gate: a number, nothing, a
\* comma, a new name, the name of a device kind, of a port or of a section
GateParameters ==
    { <<<<"0">>>>,
      <<<<"1">>>>,
      <<<<"2">>>>,
      <<<<"1", "6">>>>,
      <<<<"1", "7">>>>,
      <<>>,
      <<<<",">>>>,
      <<<<"A">>>>,
      <<<<"O", "R">>>>,
      <<<<"Q">>>>,
      <<<<"I", "1">>>>,
      <<<<"E", "N", "D">>>> }

\* a file that declares one gate
GateFiles ==
    {Join(<<<<"D", "E", "V", "I", "C", "E", "S">>, <<"G">>, <<":">>>> \o kind \o t \o rest) :
         kind \in GateKeywords, t \in GateParameters,
         rest \in {<<<<";">>, <<"E", "N", "D">>>>, <<<<",">>, <<"S">>, <<":">>, <<"S", "W", "I", "T", "C", "H">>, <<"0">>, <<";">>, <<"E", "N", "D">>>>}}

ParserTexts ==
    Files(<<DeviceSections, ConnectSections, MonitorSections, Endings>>)
        \cup ListFiles \cup GateFiles

\* Names(), Devices(names), Network(names, devices), Monitors(names, devices,
\* network), Scanner(path, names) and Parser(names, devices, network,
\* monitors, scanner) for one of the files
InitParser == NewScanner(ParserTexts, ParserNames)

NextParser == ParseNetwork

\* a definition file is parsed
SpecParser == InitParser /\ [][NextParser]_vars

----------------------------------------------------------------------------
(* Claims about the scanner: the file as the reader of a listing sees it *)

\* the line (from 1) of the character at offset i
LineOf(i) == 1 + Cardinality({j \in 1 .. (i - 1) : j <= Len(text) /\ text[j] = "\n"})

\* the offset of the newline that ends the line before the one of offset i
LineStart(i) ==
    LET before == {j \in 1 .. (i - 1) : j <= Len(text) /\ text[j] = "\n"}
    IN  IF before = {} THEN 0 ELSE CHOOSE j \in before : \A k \in before : k <= j

\* the column (from 1) of the character at offset i, every character one column
ColOf(i) == i - LineStart(i)

\* lines[line - 1][col - 1], or "" where the listing has no such character
CharAt(line, col) ==
    LET there == {i \in 1 .. Len(text) : LineOf(i) = line /\ ColOf(i) = col}
    IN  IF there = {} THEN "" ELSE text[CHOOSE i \in there : TRUE]

\* the tabs before offset i on its line that directly follow a space or a tab
TabsAfterBlank(i) ==
    {j \in (LineStart(i) + 1) .. (i - 1) :
        text[j] = "\t" /\ j > 1 /\ text[j - 1] \in {" ", "\t"}}

\* the column of offset i when every tab before it on its line takes 4 columns
\* and every other character 1
ColOfTab4(i) ==
    ColOf(i) + 3 * Cardinality({j \in (LineStart(i) + 1) .. (i - 1) : text[j] = "\t"})

\* the last offset of the "#" comment that starts at offset i
LineCommentEnd(i) ==
    LET ends == {j \in i .. Len(text) : text[j] = "\n"}
    IN  IF ends = {} THEN Len(text)
        ELSE (CHOOSE j \in ends : \A k \in ends : j <= k) - 1

\* the last offset of the block comment whose "/*" starts at offset i: the
\* "/" of the first "*/" after the "/*", or the end of the file
BlockCommentEnd(i) ==
    LET ends == {j \in (i + 2) .. (Len(text) - 1) : text[j] = "*" /\ text[j + 1] = "/"}
    IN  IF ends = {} THEN Len(text)
        ELSE (CHOOSE j \in ends : \A k \in ends : j <= k) + 1

\* the offsets from i on that lie inside a comment
RECURSIVE CommentFrom(_)
CommentFrom(i) ==
    IF i > Len(text) THEN {}
    ELSE IF text[i] = "#"
    THEN (i .. LineCommentEnd(i)) \cup CommentFrom(LineCommentEnd(i) + 1)
    ELSE IF text[i] = "/" /\ i < Len(text) /\ text[i + 1] = "*"
    THEN (i .. BlockCommentEnd(i)) \cup CommentFrom(BlockCommentEnd(i) + 1)
    ELSE CommentFrom(i + 1)

\* the longest run of characters of class C that starts at offset i
RunAt(i, C) ==
    LET stops == {j \in i .. Len(text) : text[j] \notin C}
        last  == IF stops = {} THEN Len(text)
                 ELSE (CHOOSE j \in stops : \A k \in stops : j <= k) - 1
    IN  SubSeq(text, i, last)

Alnum == Upper \cup Lower \cup Range(DigitChars)

TokenTypes == COMMA .. NAME

\* the symbols returned so far that have one of the eight token kinds
Tokens == {i \in DOMAIN symbols : symbols[i].symbol.type \in TokenTypes}

C6_TabWidth ==
    \A i \in Tokens : symbols[i].symbol.position = ColOfTab4(symbols[i].start)

\* C7: when the character get_symbol stops at, past blanks, newlines and
\* comments, is a letter, it consumes the longest run of letters and digits; the symbol is a KEYWORD iff the run is one of
\* keywords_list and a NAME otherwise; its id is the Names id of the run, so
\* two such symbols have equal ids iff their strings are equal.
C7_Names ==
    /\ \A i \in DOMAIN symbols :
          LET e == symbols[i]
          IN  /\ e.symbol.type \in {KEYWORD, NAME}
                    <=> (e.start \in 1 .. Len(text) /\ isalpha(text[e.start]))
              /\ e.symbol.type \in {KEYWORD, NAME} =>
                    /\ e.symbol.id.k = "int"
                    /\ get_name_string(NamesNow, e.symbol.id.n)
                          = <<RunAt(e.start, Alnum)>>
                    /\ e.symbol.type = KEYWORD
                          <=> RunAt(e.start, Alnum) \in Range(keywords_list)
                    /\ i < Len(symbols) =>
                          symbols[i + 1].start >= e.start + Len(RunAt(e.start, Alnum))
    /\ \A i, j \in DOMAIN symbols :
          (symbols[i].symbol.type \in {KEYWORD, NAME}
             /\ symbols[j].symbol.type \in {KEYWORD, NAME}) =>
                (symbols[i].symbol.id = symbols[j].symbol.id
                   <=> RunAt(symbols[i].start, Alnum) = RunAt(symbols[j].start, Alnum))

\* a NAME that begins like a keyword and goes on with a digit
C7_Witness ==
    \E i \in DOMAIN symbols :
        /\ symbols[i].symbol.type = NAME
        /\ RunAt(symbols[i].start, Alnum) = <<"Q", "1">>

\* the string of the last NAME or KEYWORD symbol returned before the i-th one
ContextOf(i) ==
    LET named == {j \in 1 .. (i - 1) : symbols[j].symbol.type \in {KEYWORD, NAME}}
    IN  IF named = {} THEN <<>>
        ELSE id_names[symbols[CHOOSE j \in named : \A k \in named : k <= j].symbol.id.n]

\* C8: a NUMBER is a longest run of digits, and its id depends only on the
\* string of the last NAME or KEYWORD scanned before it: the digit string as
\* it stands after SIGGEN; after SWITCH the value of a run of one digit and 2
\* for a longer run; the value of the run otherwise.
C8_Numbers ==
    \A i \in DOMAIN symbols :
        LET e == symbols[i]
            run == RunAt(e.start, Range(DigitChars))
        IN  /\ e.symbol.type = NUMBER
                  <=> (e.start \in 1 .. Len(text) /\ isdigit(text[e.start]))
            /\ e.symbol.type = NUMBER =>
                  /\ e.start > 1 => ~isdigit(text[e.start - 1])
                  /\ i < Len(symbols) => symbols[i + 1].start >= e.start + Len(run)
                  /\ e.symbol.id =
                        IF ContextOf(i) = SIGGEN_STR THEN IdStr(run)
                        ELSE IF ContextOf(i) = SWITCH_STR
                        THEN IF Len(run) = 1 THEN IdInt(PyInt(run)) ELSE IdInt(2)
                        ELSE IdInt(PyInt(run))

\* after SWITCH and a comma, a run of two digits that is read as 2
C8_Witness ==
    \E i \in DOMAIN symbols :
        /\ symbols[i].symbol.type = NUMBER
        /\ i > 2
        /\ symbols[i - 1].symbol.type = COMMA
        /\ ContextOf(i) = SWITCH_STR
        /\ RunAt(symbols[i].start, Range(DigitChars)) = <<"1", "0">>
        /\ symbols[i].symbol.id = IdInt(2)

\* the characters the scanner has consumed: those before current_character
Consumed == CurIndex(ScannerNow) - 1

\* C9: no symbol but EOF stands for a character inside a "#" comment or a
\* block comment, a block comment ending only at the first "*/" after its
\* "/*"; and every newline consumed, inside or outside a comment, has added
\* one to line_number, so every symbol of a token kind carries the line it
\* stands on.
C9_Comments ==
    /\ LET comments == CommentFrom(1)
       IN  \A i \in DOMAIN symbols :
               symbols[i].symbol.type # EOF => symbols[i].start \notin comments
    /\ \A i \in Tokens : symbols[i].symbol.line_number = LineOf(symbols[i].start)
    /\ line_number = LineOf(Consumed + 1)

\* a name right after a block comment that holds a newline
C9_Witness ==
    \E i \in Tokens :
        LET at == symbols[i].start
        IN  /\ symbols[i].symbol.type = NAME
            /\ symbols[i].symbol.line_number = 2
            /\ at > 4
            /\ (at - 1) \in CommentFrom(1)
            /\ \E j \in 1 .. (at - 1) : text[j] = "\n" /\ j \in CommentFrom(1)

\* a character that starts no token: neither blank, newline, "#", letter,
\* digit nor punctuation, a "/" counting when no "*" follows it
StartsNoToken(i) ==
    /\ i \in 1 .. Len(text)
    /\ text[i] \notin Alnum \cup {";", ">", ",", ":", ".", " ", "\t", "\n", "#"}
    /\ text[i] = "/" => (i = Len(text) \/ text[i + 1] # "*")

\* C10 as claimed: every symbol returned has one of the nine kinds.
C10_KindsAsClaimed ==
    \A i \in DOMAIN symbols : symbols[i].symbol.type \in COMMA .. EOF

\* C10: every symbol returned has one of the nine kinds or no kind (None); it
\* has no kind exactly when the character get_symbol stops at, past blanks,
\* newlines and comments, starts no token (a bare "/" included), and that
\* call has consumed the character.
C10_Kinds ==
    \A i \in DOMAIN symbols :
        LET e == symbols[i]
        IN  /\ e.symbol.type \in (COMMA .. EOF) \cup {NoneType}
            /\ e.symbol.type = NoneType <=> StartsNoToken(e.start)
            /\ e.symbol.type = NoneType =>
                  /\ e.symbol.line_number = LineOf(e.start)
                  /\ i < Len(symbols) => symbols[i + 1].start > e.start
                  /\ Consumed >= e.start

\* a symbol of no kind for a bare "/", and a further symbol after it
C10_Witness ==
    \E i \in DOMAIN symbols :
        /\ symbols[i].symbol.type = NoneType
        /\ text[symbols[i].start] = "/"
        /\ i < Len(symbols)

\* the text of line n of the file, without the newline that ends it
LineText(n) == SelectSeq(initialise_lines(text)[n], LAMBDA c : c # "\n")

\* C11: for every symbol whose line_number is a line of the file, the last
\* line included, with or without a newline at its end, print_error returns
\* the text of that line, one newline, position - 1 spaces and "^".
C11_PrintError ==
    (message.called /\ message.symbol.line_number \in 1 .. Len(initialise_lines(text)))
        => message.text = LineText(message.symbol.line_number) \o <<"\n">>
                            \o Spaces(message.symbol.position - 1) \o <<"^">>

----------------------------------------------------------------------------
(* Claims about the parser: what parse_network leaves behind *)

\* parse_network has been called and has ended, by a return or an exception
Parsed == returned # "none"

\* the diagnostics of the parsing itself: all but the two that parse_network
\* adds after its loop
Counted(e) == e.error \notin {"NETWORK", "EMPTY_FILE"}
ParseDiagnostics == SelectSeq(errors, Counted)

\* the diagnostics printed for error e
Diagnostics(e) == {i \in 1 .. Len(errors) : errors[i].error = e}

\* the symbols read that are the keyword of id
KeywordsRead(id) ==
    {i \in 1 .. Len(symbols) :
        symbols[i].symbol.type = KEYWORD /\ symbols[i].symbol.id = IdInt(id)}

\* C12: parse_network returns True exactly when no diagnostic was counted
\* during parsing, check_network() holds and a device was declared, and in
\* every other case it returns False with error_count >= 1
C12_Result ==
    Parsed =>
        /\ returned = "True"
               <=> /\ ParseDiagnostics = <<>>
                   /\ check_network(devices_list)
                   /\ DOMAIN devices_list # {}
        /\ returned # "True" => returned = "False" /\ error_count >= 1

\* C13: a file read to its end in which no END keyword was read has the
\* missing END reported and parse_network returns False
C13_MissingEnd ==
    (Parsed /\ symbol.type = EOF /\ KeywordsRead(END_ID) = {})
        => Diagnostics("NO_END") # {} /\ returned = "False"

\* C14: when parsing ends with no device, no connection, no monitor and no
\* diagnostic, parse_network reports Empty File, error_count is exactly 1 and
\* it returns False
C14_EmptyFile ==
    (Parsed /\ ParseDiagnostics = <<>> /\ DOMAIN devices_list = {}
        /\ DOMAIN monitors_dictionary = {})
        => /\ Len(errors) = 1
           /\ errors[1].error = "EMPTY_FILE"
           /\ error_count = 1
           /\ returned = "False"

\* a file that holds END and nothing else has been parsed
C14_Witness ==
    /\ returned = "False"
    /\ text = Join(<<keywords_list[4]>>)
    /\ Diagnostics("EMPTY_FILE") = {1}
    /\ error_count = 1

\* an input of a device that no connection drives
Unconnected ==
    \E d \in DOMAIN devices_list :
        \E p \in DOMAIN devices_list[d].inputs : devices_list[d].inputs[p] = UNCONNECTED

\* every input of every device is driven by an output of a device
InputsDriven ==
    \A d \in DOMAIN devices_list :
        \A p \in DOMAIN devices_list[d].inputs :
            LET from == devices_list[d].inputs[p]
            IN  /\ from # UNCONNECTED
                /\ from[1] \in DOMAIN devices_list
                /\ from[2] \in devices_list[from[1]].outputs

C16_RunsToEnd ==
    Parsed => returned # "raised" /\ symbol.type = EOF /\ FILE.closed

\* the kinds of device that are declared with a parameter
ParameterKinds == {AND_ID, NAND_ID, OR_ID, NOR_ID, CLOCK_ID, SIGGEN_ID, SWITCH_ID}

\* the symbols read from the i-th on are NAME : KIND , with KIND a kind that
\* takes a parameter: the parameter is missing before the comma
MissingParameterAt(i) ==
    /\ i + 3 <= Len(symbols)
    /\ symbols[i].symbol.type = NAME
    /\ symbols[i + 1].symbol.type = COLON
    /\ symbols[i + 2].symbol.type = KEYWORD
    /\ symbols[i + 2].symbol.id.n \in ParameterKinds
    /\ symbols[i + 3].symbol.type = COMMA

\* the symbols read from the i-th on are NAME : SWITCH and the number 0 or 1
SwitchAt(i) ==
    /\ i + 3 <= Len(symbols)
    /\ symbols[i].symbol.type = NAME
    /\ symbols[i + 1].symbol.type = COLON
    /\ symbols[i + 2].symbol = [symbols[i + 2].symbol EXCEPT !.type = KEYWORD,
                                                             !.id = IdInt(SWITCH_ID)]
    /\ symbols[i + 3].symbol.type = NUMBER
    /\ symbols[i + 3].symbol.id.n \in {0, 1}

\* C17: when the first device of a DEVICES section that opens the file has
\* no parameter before its comma, a diagnostic points at that comma (the
\* fifth symbol), and a switch declared after the comma is built
C17_MissingParameter ==
    (Parsed /\ MissingParameterAt(2) /\ symbols[1].symbol.id = IdInt(DEVICES_ID))
        => /\ \E i \in 1 .. Len(errors) : errors[i].at = 5
           /\ SwitchAt(6) => symbols[6].symbol.id.n \in DOMAIN devices_list

\* the diagnostics error() printed first in a call that went on to recover:
\* the current symbol was no section keyword
Faults ==
    {i \in 1 .. Len(errors) :
        /\ Counted(errors[i])
        /\ ~errors[i].recovering
        /\ errors[i].error # "MISSED_SEMICOLON"}

\* recovery from the fault whose diagnostic is errors[i] stops at the m-th
\* symbol read: a comma inside a list, a semicolon, or a section keyword
\* after the symbol of the fault
StopsAt(i, m) ==
    LET sym == symbols[m].symbol
    IN  \/ sym.type = COMMA /\ errors[i].parent # NO_PARENT
        \/ sym.type = SEMICOLON
        \/ m > errors[i].at /\ IsSection(sym)

\* the first symbol recovery from the fault of errors[i] stops at, 0 when it
\* reads to the end of the file
StopOf(i) ==
    LET stops == {m \in errors[i].at .. Len(symbols) : StopsAt(i, m)}
    IN  IF stops = {} THEN 0 ELSE CHOOSE m \in stops : \A k \in stops : m <= k

\* the faults whose recovery reaches a section keyword before the semicolon
\* of the list
ReachKeyword == {i \in Faults : StopOf(i) # 0 /\ IsSection(symbols[StopOf(i)].symbol)}

\* the diagnostic after errors[i] is the missed semicolon, printed during
\* recovery with the m-th symbol as the current one
MissedAt(i, m) ==
    /\ i < Len(errors)
    /\ errors[i + 1].error = "MISSED_SEMICOLON"
    /\ errors[i + 1].recovering
    /\ errors[i + 1].at = m
    /\ errors[i + 1].symbol = symbols[m].symbol

\* C18 as claimed: whenever recovery reaches a section keyword, the missed
\* semicolon is reported at that keyword and the section it opens is parsed
C18_MissedSemicolonAsClaimed ==
    Parsed =>
        \A i \in ReachKeyword : MissedAt(i, StopOf(i)) /\ Len(symbols) > StopOf(i)

\* the diagnostic errors[i] belongs to the call error(NOT_END) that
\* end_of_file makes for what follows END
AfterEnd(i) ==
    \/ errors[i].type = "NOT_END"
    \/ errors[i].recovering /\ errors[i - 1].type = "NOT_END"

\* C18: a diagnostic printed for the missed semicolon points at a section
\* keyword; when recovery reaches a section keyword the missed semicolon is
\* reported at it unless the fault recovered from is the missing comma or
\* semicolon itself, and then nothing is printed for the keyword; the parser
\* goes on with the symbol after the keyword, except for a keyword found
\* behind END, where parse_network ends
C18_MissedSemicolon ==
    Parsed =>
        /\ \A i \in Diagnostics("MISSED_SEMICOLON") :
               /\ IsSection(errors[i].symbol)
               /\ IF AfterEnd(i)
                  THEN Len(symbols) = errors[i].at /\ returned = "False"
                  ELSE Len(symbols) > errors[i].at
        /\ \A i \in ReachKeyword :
               /\ errors[i].type # "NOT_END" => Len(symbols) > StopOf(i)
               /\ errors[i].error # "NO_SEMICOLON" => MissedAt(i, StopOf(i))
               /\ errors[i].error = "NO_SEMICOLON"
                      => \A j \in 1 .. Len(errors) : errors[j].at # StopOf(i)

\* recovery from a fault that is no missing comma or semicolon has reached a
\* section keyword, the missed semicolon was reported there and the section
\* was parsed
C18_Witness ==
    /\ Parsed
    /\ \E i \in ReachKeyword :
           /\ errors[i].error # "NO_SEMICOLON"
           /\ MissedAt(i, StopOf(i))
           /\ Len(symbols) > StopOf(i) + 1

\* C19 as claimed: every call of error() counts one diagnostic, none is
\* added while it recovers
C19_OneDiagnosticAsClaimed ==
    Parsed => \A i \in 1 .. Len(errors) : ~errors[i].recovering

\* the call of error() for the fault of errors[i] printed a second diagnostic
Twice(i) == i < Len(errors) /\ errors[i + 1].recovering

\* C19: every diagnostic printed is counted once; a fault is counted twice
\* exactly when its recovery reaches the end of the file (the missing END is
\* added) or, the fault being no missing comma or semicolon, a section
\* keyword (the missed semicolon is added at the keyword), and once when
\* recovery stops at a comma or a semicolon or the fault is found at a
\* section keyword
C19_Diagnostics ==
    Parsed =>
        /\ error_count = Len(errors)
        /\ \A i \in 1 .. Len(errors) : errors[i].recovering => i - 1 \in Faults
        /\ \A i \in Faults :
               LET m == StopOf(i)
               IN  /\ Twice(i)
                       <=> \/ m = 0
                           \/ m # 0 /\ IsSection(symbols[m].symbol)
                                /\ errors[i].error # "NO_SEMICOLON"
                   /\ Twice(i) /\ m = 0
                       => errors[i + 1].error = "NO_END"
                              /\ errors[i + 1].symbol.type = EOF
                   /\ Twice(i) /\ m # 0 => MissedAt(i, m)

\* one fault of the file was counted once, its recovery having stopped at a
\* comma of the list, and another twice, its recovery having reached the end
\* of the file
C19_Witness ==
    /\ Parsed
    /\ \E i \in Faults :
           /\ StopOf(i) # 0
           /\ symbols[StopOf(i)].symbol.type = COMMA
           /\ ~Twice(i)
    /\ \E i \in Faults : StopOf(i) = 0 /\ Twice(i) /\ errors[i + 1].error = "NO_END"

\* the kinds of gate declared with a number of inputs
GateIds == {AND_ID, NAND_ID, OR_ID, NOR_ID}

\* the file opens with DEVICES NAME : and the keyword of a gate, and a fifth
\* symbol was read
GateDeclared ==
    /\ Len(symbols) >= 5
    /\ symbols[1].symbol.type = KEYWORD /\ symbols[1].symbol.id = IdInt(DEVICES_ID)
    /\ symbols[2].symbol.type = NAME
    /\ symbols[3].symbol.type = COLON
    /\ symbols[4].symbol.type = KEYWORD /\ symbols[4].symbol.id.n \in GateIds

\* C20: the gate that opens the file is created exactly when the symbol after
\* its kind is a NUMBER in 1 .. 16; a NUMBER out of that range is reported as
\* INVALID_RANGE and any other symbol as NO_NUMBER, with no device created
C20_GateInputs ==
    (Parsed /\ GateDeclared) =>
        LET t == symbols[5].symbol
            created == symbols[2].symbol.id.n \in DOMAIN devices_list
            number == t.type = NUMBER
        IN  /\ created <=> (number /\ t.id.n \in 1 .. 16)
            /\ number /\ t.id.n \notin 1 .. 16
                   => errors # <<>> /\ errors[1].error = "INVALID_RANGE"
            /\ ~number => errors # <<>> /\ errors[1].error = "NO_NUMBER"

----------------------------------------------------------------------------
(* Parser: the declarations, connections and monitors parsed *)

\* the kinds of device that are declared without a number of inputs
PlainKeywords ==
    { <<<<"S", "W", "I", "T", "C", "H">>>>,
      <<<<"S", "I", "G", "G", "E", "N">>>>,
      <<<<"C", "L", "O", "C", "K">>>>,
      <<<<"X", "O", "R">>>>,
      <<<<"D", "T", "Y", "P", "E">>>> }

\* what follows the kind in a declaration: a run of digits, nothing, a new
\* name, the name of a device kind or of a section, a comma
PlainParameters ==
    { <<>>,
      <<<<"0">>>>,
      <<<<"1">>>>,
      <<<<"2">>>>,
      <<<<"9">>>>,
      <<<<"0", "0">>>>,
      <<<<"0", "1">>>>,
      <<<<"1", "0">>>>,
      <<<<"1", "1">>>>,
      <<<<"0", "1", "2">>>>,
      <<<<"1", "5">>>>,
      <<<<"a">>>>,
      <<<<"A">>>>,
      <<<<"A", "N", "D">>>>,
      <<<<"O", "R">>>>,
      <<<<"E", "N", "D">>>>,
      <<<<",">>>> }

\* a file that declares one device and then ends its list or goes on with a
\* switch
DeclarationFiles ==
    {Join(<<<<"D", "E", "V", "I", "C", "E", "S">>, <<"D">>, <<":">>>> \o kind \o t \o rest) :
         kind \in PlainKeywords, t \in PlainParameters,
         rest \in {<<<<";">>, <<"E", "N", "D">>>>, <<<<",">>, <<"S">>, <<":">>, <<"S", "W", "I", "T", "C", "H">>, <<"1">>, <<";">>, <<"E", "N", "D">>>>}}

\* every kind of device with a parameter it is declared with
FullKinds ==
    { <<<<"A", "N", "D">>, <<"2">>>>,
      <<<<"N", "A", "N", "D">>, <<"2">>>>,
      <<<<"O", "R">>, <<"2">>>>,
      <<<<"N", "O", "R">>, <<"2">>>>,
      <<<<"X", "O", "R">>>>,
      <<<<"D", "T", "Y", "P", "E">>>>,
      <<<<"C", "L", "O", "C", "K">>, <<"1">>>>,
      <<<<"S", "W", "I", "T", "C", "H">>, <<"0">>>>,
      <<<<"S", "I", "G", "G", "E", "N">>, <<"0", "1">>>> }

\* a file that declares the device D twice, as any kind after any kind
RepeatedFiles ==
    {Join(<<<<"D", "E", "V", "I", "C", "E", "S">>, <<"D">>, <<":">>>> \o first \o <<<<",">>, <<"D">>, <<":">>>> \o second \o <<<<";">>, <<"E", "N", "D">>>>) :
         first \in FullKinds, second \in FullKinds}

DeclarationTexts == DeclarationFiles \cup RepeatedFiles

\* the parser of InitParser for one of the files of declarations
InitDeclare == NewScanner(DeclarationTexts, ParserNames)

NextDeclare == ParseNetwork

\* a file of declarations is parsed
SpecDeclare == InitDeclare /\ [][NextDeclare]_vars

----------------------------------------------------------------------------
(* Claims about declarations *)

\* the characters of the file from the i-th symbol read up to the next blank
\* (in the files parsed, every token is followed by a blank)
Word(i) ==
    LET from == symbols[i].start
        blanks == {j \in from .. Len(text) : text[j] = " "}
        to == IF blanks = {} THEN Len(text) + 1
              ELSE CHOOSE j \in blanks : \A k \in blanks : j <= k
    IN  SubSeq(text, from, to - 1)

\* the file opens with DEVICES NAME : and the keyword id of a device kind,
\* and a fifth symbol was read
DeclaredFirst(id) ==
    /\ Len(symbols) >= 5
    /\ symbols[1].symbol.type = KEYWORD /\ symbols[1].symbol.id = IdInt(DEVICES_ID)
    /\ symbols[2].symbol.type = NAME
    /\ symbols[3].symbol.type = COLON
    /\ symbols[4].symbol.type = KEYWORD /\ symbols[4].symbol.id = IdInt(id)

\* the device that the declaration opening the file names has been created
CreatedFirst == symbols[2].symbol.id.n \in DOMAIN devices_list

\* the first diagnostic printed is the one for error e
FirstDiagnostic(e) == errors # <<>> /\ errors[1].error = e

\* C21: the switch that opens the file is created exactly when the token
\* after SWITCH is the single digit 0 or 1; for every other token (another
\* digit, a longer run of digits, a comma, a keyword, a name) NOT_BIT is
\* reported and no device is created
C21_SwitchBit ==
    (Parsed /\ DeclaredFirst(SWITCH_ID)) =>
        /\ CreatedFirst <=> Word(5) \in {<<"0">>, <<"1">>}
        /\ ~CreatedFirst => FirstDiagnostic("NOT_BIT")

\* a string of one or more characters, all of them 0 or 1
Binary(s) == s # <<>> /\ \A i \in DOMAIN s : s[i] \in {"0", "1"}

\* C22: the signal generator that opens the file is created exactly when a
\* non-empty waveform of 0s and 1s follows SIGGEN; a waveform (a word of
\* letters and digits that is no keyword) with another character is
\* reported as NONBINARY_WAVEFORM and a missing one as NO_WAVEFORM, and
\* then no device is created
C22_Waveform ==
    (Parsed /\ DeclaredFirst(SIGGEN_ID)) =>
        LET word == Word(5)
            waveform == /\ word # <<>>
                        /\ \A i \in DOMAIN word : isalnum(word[i])
                        /\ word \notin Range(keywords_list)
        IN  /\ CreatedFirst <=> Binary(word)
            /\ waveform /\ ~Binary(word) => FirstDiagnostic("NONBINARY_WAVEFORM")
            /\ ~waveform => FirstDiagnostic("NO_WAVEFORM")

\* C23: the clock that opens the file is created exactly when the symbol
\* after CLOCK is a NUMBER of 1 or more; the NUMBER 0 is reported as
\* CLOCK_PERIOD_ZERO and a symbol that is no NUMBER as NO_PERIOD, and then
\* no device is created
C23_ClockPeriod ==
    (Parsed /\ DeclaredFirst(CLOCK_ID)) =>
        LET t == symbols[5].symbol
            number == t.type = NUMBER
        IN  /\ CreatedFirst <=> (number /\ t.id.n >= 1)
            /\ number /\ t.id.n = 0 => FirstDiagnostic("CLOCK_PERIOD_ZERO")
            /\ ~number => FirstDiagnostic("NO_PERIOD")

\* C24: the XOR or DTYPE that opens the file is created when a comma or a
\* semicolon follows its kind; when a NUMBER follows, of whatever value,
\* QUALIFIER_PRESENT is reported at the number, no device is created, and a
\* switch declared after the comma that follows the number is built
C24_NoParameter ==
    (Parsed /\ (DeclaredFirst(XOR_ID) \/ DeclaredFirst(DTYPE_ID))) =>
        LET t == symbols[5].symbol
        IN  /\ t.type \in {COMMA, SEMICOLON} => CreatedFirst
            /\ t.type = NUMBER =>
                  /\ FirstDiagnostic("QUALIFIER_PRESENT")
                  /\ errors[1].at = 5
                  /\ errors[1].symbol = t
                  /\ ~CreatedFirst
                  /\ (Len(symbols) >= 6 /\ symbols[6].symbol.type = COMMA /\ SwitchAt(7))
                         => symbols[7].symbol.id.n \in DOMAIN devices_list

\* the file declares a device of one name twice: DEVICES NAME : kind
\* [parameter] , NAME : kind, the second NAME being the i-th symbol read
DeclaredAgainAt(i) ==
    /\ Len(symbols) >= i + 2
    /\ i \in {6, 7}
    /\ symbols[1].symbol.id = IdInt(DEVICES_ID)
    /\ symbols[2].symbol.type = NAME
    /\ symbols[i - 1].symbol.type = COMMA
    /\ symbols[i].symbol.type = NAME
    /\ symbols[i].symbol.id = symbols[2].symbol.id
    /\ symbols[i + 1].symbol.type = COLON
    /\ symbols[i + 2].symbol.type = KEYWORD
    /\ symbols[i + 2].symbol.id.n \in device_id_list

\* the device first declared in the file, as its declaration made it
FirstKind == KindOf(symbols[4].symbol.id.n)

\* C25: when the device that opens the file is declared a second time, as
\* whatever kind, exactly one diagnostic is printed and it is
\* REPEATED_DEVICE, and the device is still the one first declared
C25_RepeatedDevice ==
    (Parsed /\ \E i \in {6, 7} : DeclaredAgainAt(i)) =>
        /\ Len(errors) = 1
        /\ errors[1].error = "REPEATED_DEVICE"
        /\ CreatedFirst
        /\ devices_list[symbols[2].symbol.id.n].device_kind = FirstKind

----------------------------------------------------------------------------
(* Parser: the connections and monitors parsed *)

\* most items in a list of connections or of monitors
MaxListed == 2

\* two switches, a gate of two inputs and a D-type
CircuitDevices ==
    <<<<"D", "E", "V", "I", "C", "E", "S">>, <<"S">>, <<":">>, <<"S", "W", "I", "T", "C", "H">>, <<"0">>, <<",">>, <<"T">>, <<":">>, <<"S", "W", "I", "T", "C", "H">>, <<"1">>, <<",">>, <<"G">>, <<":">>, <<"N", "A", "N", "D">>, <<"2">>, <<",">>, <<"F">>, <<":">>, <<"D", "T", "Y", "P", "E">>, <<";">>>>

\* connections of the circuit: to the inputs of the gate (two of them to
\* the same input), to the D-type, from a device that does not exist and to
\* one
ConnectionItems ==
    { <<<<"S">>, <<">">>, <<"G">>, <<".">>, <<"I", "1">>>>,
      <<<<"T">>, <<">">>, <<"G">>, <<".">>, <<"I", "1">>>>,
      <<<<"T">>, <<">">>, <<"G">>, <<".">>, <<"I", "2">>>>,
      <<<<"F">>, <<".">>, <<"Q">>, <<">">>, <<"G">>, <<".">>, <<"I", "2">>>>,
      <<<<"G">>, <<">">>, <<"F">>, <<".">>, <<"D", "A", "T", "A">>>>,
      <<<<"A">>, <<">">>, <<"G">>, <<".">>, <<"I", "1">>>>,
      <<<<"S">>, <<">">>, <<"A">>, <<".">>, <<"I", "1">>>> }

\* signals to monitor: outputs of the circuit, the D-type without a port,
\* and a device that does not exist, without a port and with one
MonitorItems ==
    { <<<<"S">>>>,
      <<<<"G">>>>,
      <<<<"F">>, <<".">>, <<"Q">>>>,
      <<<<"F">>, <<".">>, <<"Q", "B", "A", "R">>>>,
      <<<<"F">>>>,
      <<<<"A">>>>,
      <<<<"A">>, <<".">>, <<"Q">>>> }

\* the lists of one to n of the items, with a comma between two items
RECURSIVE ItemLists(_, _)
ItemLists(items, n) ==
    IF n = 1 THEN items
    ELSE LET shorter == ItemLists(items, n - 1)
         IN  shorter \cup {l \o <<<<",">>>> \o i : l \in shorter, i \in items}

\* how a file goes on after a list: with the semicolon and END, with END
\* and no semicolon, or not at all
ListEndings == {<<<<";">>, <<"E", "N", "D">>>>, <<<<"E", "N", "D">>>>, <<>>}

\* a file that declares the circuit and connects it
ConnectionFiles ==
    {Join(CircuitDevices \o <<<<"C", "O", "N", "N", "E", "C", "T">>>> \o l \o e) :
         l \in ItemLists(ConnectionItems, MaxListed), e \in ListEndings}

\* a file that declares the circuit and monitors it
MonitorFiles ==
    {Join(CircuitDevices \o <<<<"M", "O", "N", "I", "T", "O", "R">>>> \o l \o e) :
         l \in ItemLists(MonitorItems, MaxListed), e \in ListEndings}

\* a file that uses a switch before it declares it
LateFiles ==
    { Join(<<<<"M", "O", "N", "I", "T", "O", "R">>, <<"S">>, <<";">>, <<"D", "E", "V", "I", "C", "E", "S">>, <<"S">>, <<":">>, <<"S", "W", "I", "T", "C", "H">>, <<"0">>, <<",">>, <<"G">>, <<":">>, <<"N", "A", "N", "D">>, <<"1">>, <<";">>, <<"E", "N", "D">>>>),
      Join(<<<<"M", "O", "N", "I", "T", "O", "R">>, <<"G">>, <<",">>, <<"S">>, <<";">>, <<"D", "E", "V", "I", "C", "E", "S">>, <<"S">>, <<":">>, <<"S", "W", "I", "T", "C", "H">>, <<"0">>, <<",">>, <<"G">>, <<":">>, <<"N", "A", "N", "D">>, <<"1">>, <<";">>, <<"E", "N", "D">>>>),
      Join(<<<<"D", "E", "V", "I", "C", "E", "S">>, <<"G">>, <<":">>, <<"N", "A", "N", "D">>, <<"1">>, <<";">>, <<"C", "O", "N", "N", "E", "C", "T">>, <<"S">>, <<">">>, <<"G">>, <<".">>, <<"I", "1">>, <<";">>, <<"D", "E", "V", "I", "C", "E", "S">>, <<"S">>, <<":">>, <<"S", "W", "I", "T", "C", "H">>, <<"0">>, <<";">>, <<"E", "N", "D">>>>) }

CircuitTexts == ConnectionFiles \cup MonitorFiles \cup LateFiles

\* the parser of InitParser for one of the files of a circuit
InitCircuit == NewScanner(CircuitTexts, ParserNames)

NextCircuit == ParseNetwork

\* a file that connects or monitors a circuit is parsed
SpecCircuit == InitCircuit /\ [][NextCircuit]_vars

----------------------------------------------------------------------------
(* Claims about connections and monitors *)

\* the section the i-th symbol read stands in: the id of the last section
\* keyword read before it
SectionOf(i) ==
    LET keywords == {j \in 1 .. (i - 1) :
                        symbols[j].symbol.type = KEYWORD /\ IsSection(symbols[j].symbol)}
    IN  IF keywords = {} THEN NoneId
        ELSE symbols[CHOOSE j \in keywords : \A k \in keywords : k <= j].symbol.id.n

\* the i-th symbol read is the name that opens a signal of a CONNECT or
\* MONITOR section
SignalAt(i) ==
    /\ symbols[i].symbol.type = NAME
    /\ SectionOf(i) \in {CONNECT_ID, MONITOR_ID}
    /\ symbols[i - 1].symbol.type # DOT

\* the device the i-th symbol names was declared, and made, before it
DeclaredBefore(i) ==
    \E j \in 1 .. (i - 2) :
        /\ symbols[j].symbol = [symbols[i].symbol EXCEPT
                                   !.position = symbols[j].symbol.position,
                                   !.line_number = symbols[j].symbol.line_number]
        /\ symbols[j + 1].symbol.type = COLON
        /\ symbols[i].symbol.id.n \in DOMAIN devices_list

\* the signals that name a device not declared before them (in the files
\* parsed such a device is named in no other signal)
AbsentSignals == {i \in 2 .. Len(symbols) : SignalAt(i) /\ ~DeclaredBefore(i)}

\* the symbol that is the current one when the signal at i has been read:
\* connection() returns at the name, monitor() after the name or its port
AfterSignal(i) ==
    IF SectionOf(i) = CONNECT_ID THEN i
    ELSE IF symbols[i + 1].symbol.type = DOT THEN i + 3 ELSE i + 1

\* the comma that ends the item of the signal at i, 0 when its list ends
\* without one
NextComma(i) ==
    LET ends == {j \in i .. Len(symbols) :
                    \/ symbols[j].symbol.type \in {COMMA, SEMICOLON, EOF}
                    \/ IsSection(symbols[j].symbol)}
        first == CHOOSE j \in ends : \A k \in ends : j <= k
    IN  IF symbols[first].symbol.type = COMMA THEN first ELSE 0

\* the item at i was parsed: a signal of a device declared before it is
\* monitored, and a connection from one to an input of one has been made or
\* has its diagnostic
ItemParsed(i) ==
    (SignalAt(i) /\ DeclaredBefore(i)) =>
        LET d == symbols[i].symbol.id.n
            port == IF symbols[i + 1].symbol.type = DOT
                    THEN PortKey(symbols[i + 2].symbol.id) ELSE NoneId
        IN  IF SectionOf(i) = MONITOR_ID
            THEN \/ <<d, port>> \in DOMAIN monitors_dictionary
                 \/ \E k \in 1 .. Len(errors) : errors[k].at = AfterSignal(i)
            ELSE \/ \E k \in 1 .. Len(errors) : errors[k].at >= i /\ errors[k].at <= i + 6
                 \/ \E g \in DOMAIN devices_list :
                        \E p \in DOMAIN devices_list[g].inputs :
                            devices_list[g].inputs[p] = <<d, port>>

\* C26: a signal of a CONNECT or MONITOR section that names a device not
\* declared before it is reported as DEVICE_ABSENT, no input is driven by
\* the device and no signal of it is monitored, and the item after the next
\* comma of the list is parsed
C26_DeviceAbsent ==
    Parsed =>
        \A i \in AbsentSignals :
            /\ \E k \in 1 .. Len(errors) :
                   errors[k].error = "DEVICE_ABSENT" /\ errors[k].at = AfterSignal(i)
            /\ \A s \in DOMAIN monitors_dictionary : s[1] # symbols[i].symbol.id.n
            /\ \A g \in DOMAIN devices_list :
                   \A p \in DOMAIN devices_list[g].inputs :
                       \/ devices_list[g].inputs[p] = UNCONNECTED
                       \/ devices_list[g].inputs[p][1] # symbols[i].symbol.id.n
            /\ NextComma(i) # 0 => ItemParsed(NextComma(i) + 1)

\* the arrows of the connection statements read
Arrows == {j \in 3 .. (Len(symbols) - 3) :
              symbols[j].symbol.type = ARROW /\ SectionOf(j) = CONNECT_ID}

\* the signal written before the arrow at j, and where it starts
SourceStart(j) == IF symbols[j - 2].symbol.type = DOT THEN j - 3 ELSE j - 1
Source(j) ==
    <<symbols[SourceStart(j)].symbol.id.n,
      IF symbols[j - 2].symbol.type = DOT THEN PortKey(symbols[j - 1].symbol.id) ELSE NoneId>>

\* the input written after the arrow at j
Target(j) == <<symbols[j + 1].symbol.id.n, PortKey(symbols[j + 3].symbol.id)>>

\* the statement around the arrow at j joins an output of a device declared
\* before it to an input of one
JoinsOutputToInput(j) ==
    /\ SignalAt(SourceStart(j)) /\ DeclaredBefore(SourceStart(j))
    /\ Source(j)[2] \in devices_list[Source(j)[1]].outputs
    /\ SignalAt(j + 1) /\ DeclaredBefore(j + 1)
    /\ symbols[j + 2].symbol.type = DOT
    /\ Target(j)[2] \in DOMAIN devices_list[Target(j)[1]].inputs

\* the first statement that connects the input of the statement at j
FirstTo(j) ==
    LET same == {i \in Arrows : JoinsOutputToInput(i) /\ Target(i) = Target(j)}
    IN  CHOOSE i \in same : \A k \in same : i <= k

\* C27: every input keeps the source of the first statement that connects it,
\* and every later statement that connects it again is reported as
\* INPUT_CONNECTED
C27_InputConnected ==
    Parsed =>
        \A j \in Arrows :
            JoinsOutputToInput(j) =>
                /\ devices_list[Target(j)[1]].inputs[Target(j)[2]] = Source(FirstTo(j))
                /\ j # FirstTo(j) =>
                       \E k \in 1 .. Len(errors) :
                           errors[k].error = "INPUT_CONNECTED" /\ errors[k].at = j + 4

\* the signals listed in MONITOR sections
Listed == {i \in 2 .. (Len(symbols) - 1) : SignalAt(i) /\ SectionOf(i) = MONITOR_ID}

\* the key of the signal listed at i: its device and its port, None without
MonitorKey(i) ==
    <<symbols[i].symbol.id.n,
      IF symbols[i + 1].symbol.type = DOT THEN PortKey(symbols[i + 2].symbol.id) ELSE NoneId>>

\* the signal listed at i is an output of a device declared before it
ValidSignal(i) ==
    /\ DeclaredBefore(i)
    /\ MonitorKey(i)[2] \in devices_list[MonitorKey(i)[1]].outputs

\* the signal listed at i was listed, and was valid, before
ListedBefore(i) ==
    \E j \in Listed : j < i /\ ValidSignal(j) /\ MonitorKey(j) = MonitorKey(i)

\* C28: when parse_network has returned the monitors are the valid signals
\* listed in MONITOR sections, each under the key (device id, port id or
\* None) and with an empty history, and a valid signal listed again is
\* reported as REPEATED_MONITOR
C28_MonitorTable ==
    Parsed =>
        /\ DOMAIN monitors_dictionary = {MonitorKey(i) : i \in {j \in Listed : ValidSignal(j)}}
        /\ \A s \in DOMAIN monitors_dictionary : monitors_dictionary[s] = <<>>
        /\ \A i \in Listed :
               (ValidSignal(i) /\ ListedBefore(i)) =>
                   \E k \in 1 .. Len(errors) :
                       errors[k].error = "REPEATED_MONITOR" /\ errors[k].at = AfterSignal(i)

----------------------------------------------------------------------------
(* Devices, Network and Monitors, as the simulation uses them *)

LOW == "LOW"
HIGH == "HIGH"
RISING == "RISING"
FALLING == "FALLING"

\* most passes over the devices before execute_network gives up
iteration_cap == 20

\* the level a bit of a definition file stands for, as the number of a
\* switch and as a character of a waveform
bit_level(n) == IF n = 1 THEN HIGH ELSE LOW
char_level(c) == IF c = "1" THEN HIGH ELSE LOW

\* the level an edge settles to
settled(level) == IF level \in {HIGH, RISING} THEN HIGH ELSE LOW

inverted(level) == IF settled(level) = HIGH THEN LOW ELSE HIGH

\* the device as make_device leaves it: its inputs are in devices_list, and
\* its output starts at the switch's bit, at the first bit of the waveform,
\* and at LOW for a clock, a gate and Q
new_signals(kind, property) ==
    [clock_half_period |-> IF kind = "CLOCK" THEN property.n ELSE 0,
     clock_counter |-> 0,
     siggen_waveform |-> IF kind = "SIGGEN" THEN property.s ELSE <<>>,
     siggen_phase |-> 0,
     switch_state |-> IF kind = "SWITCH" THEN bit_level(property.n) ELSE LOW,
     dtype_memory |-> LOW,
     outputs |-> CASE kind = "DTYPE" -> (Q_ID :> LOW) @@ (QBAR_ID :> HIGH)
                   [] kind = "SWITCH" -> (NoneId :> bit_level(property.n))
                   [] kind = "SIGGEN" -> (NoneId :> char_level(property.s[1]))
                   [] OTHER -> (NoneId :> LOW)]

\* the level on an input of a device
input_level(devices, sig, device_id, input_id) ==
    LET source == devices[device_id].inputs[input_id]
    IN  sig[source[1]].outputs[source[2]]

\* a clock counts the cycle and, at its half period, toggles with an edge
execute_clock(d) ==
    IF d.clock_counter + 1 = d.clock_half_period
    THEN [d EXCEPT !.clock_counter = 0,
                   !.outputs = (NoneId :> IF settled(d.outputs[NoneId]) = HIGH
                                          THEN FALLING ELSE RISING)]
    ELSE [d EXCEPT !.clock_counter = @ + 1,
                   !.outputs = (NoneId :> settled(d.outputs[NoneId]))]

\* a signal generator moves to the next bit of its waveform
execute_siggen(d) ==
    The({[d EXCEPT !.siggen_phase = phase,
                   !.outputs = (NoneId :> char_level(d.siggen_waveform[phase + 1]))] :
             phase \in {(d.siggen_phase + 1) % Len(d.siggen_waveform)}})

execute_switch(d) == [d EXCEPT !.outputs = (NoneId :> d.switch_state)]

\* a D-type takes DATA on a rising CLK; SET and CLEAR force Q, CLEAR last
execute_d_type(devices, sig, device_id) ==
    The({[sig[device_id] EXCEPT !.dtype_memory = memory,
                                !.outputs = (Q_ID :> memory) @@ (QBAR_ID :> inverted(memory))] :
             memory \in {IF settled(input_level(devices, sig, device_id, CLEAR_ID)) = HIGH
                         THEN LOW
                         ELSE IF settled(input_level(devices, sig, device_id, SET_ID)) = HIGH
                         THEN HIGH
                         ELSE IF input_level(devices, sig, device_id, CLK_ID) = RISING
                         THEN settled(input_level(devices, sig, device_id, DATA_ID))
                         ELSE sig[device_id].dtype_memory}})

\* the output of a gate for the settled levels of its inputs
execute_gate(devices, sig, device_id) ==
    LET kind == devices[device_id].device_kind
        high == {i \in DOMAIN devices[device_id].inputs :
                    settled(input_level(devices, sig, device_id, i)) = HIGH}
        all == high = DOMAIN devices[device_id].inputs
        some == high # {}
        odd == Cardinality(high) % 2 = 1
        on == CASE kind = "AND" -> all
                [] kind = "NAND" -> ~all
                [] kind = "OR" -> some
                [] kind = "NOR" -> ~some
                [] OTHER -> odd
    IN  [sig[device_id] EXCEPT !.outputs = (NoneId :> IF on THEN HIGH ELSE LOW)]

\* the devices that have no input, each moved on by one cycle
execute_sources(devices, sig) ==
    [d \in DOMAIN sig |->
        CASE devices[d].device_kind = "CLOCK" -> execute_clock(sig[d])
          [] devices[d].device_kind = "SIGGEN" -> execute_siggen(sig[d])
          [] devices[d].device_kind = "SWITCH" -> execute_switch(sig[d])
          [] OTHER -> sig[d]]

execute_d_types(devices, sig) ==
    [d \in DOMAIN sig |->
        IF devices[d].device_kind = "DTYPE" THEN execute_d_type(devices, sig, d)
        ELSE sig[d]]

\* one pass over the gates, in the order of their ids, each seeing the
\* outputs of the ones before it
RECURSIVE execute_gates(_, _, _)
execute_gates(devices, sig, left) ==
    IF left = {} THEN sig
    ELSE The({execute_gates(devices,
                            [sig EXCEPT ![d] = execute_gate(devices, sig, d)],
                            left \ {d}) :
                  d \in {CHOOSE d \in left : \A e \in left : d <= e}})

Gates(devices) ==
    {d \in DOMAIN devices : devices[d].device_kind \in GateKinds \cup {"XOR"}}

\* passes over the gates until no output changes, at most passes of them
RECURSIVE propagate(_, _, _)
propagate(devices, sig0, passes) ==
    The({IF sig = sig0 THEN [signals |-> sig, steady |-> TRUE]
         ELSE IF passes <= 1 THEN [signals |-> sig, steady |-> FALSE]
         ELSE propagate(devices, sig, passes - 1) :
             sig \in {execute_gates(devices, sig0, Gates(devices))}})

\* Network.execute_network(): the devices after one cycle, and False when
\* the network has not settled
execute_network(devices, sig0) ==
    The({[signals |-> r.signals, returned |-> r.steady] :
             r \in {propagate(devices,
                              execute_d_types(devices, execute_sources(devices, sig0)),
                              iteration_cap)}})

\* Devices.set_switch(device_id, signal)
set_switch(devices, sig, device_id, level) ==
    IF device_id \in DOMAIN devices /\ devices[device_id].device_kind = "SWITCH"
    THEN [signals |-> [sig EXCEPT ![device_id].switch_state = level], returned |-> TRUE]
    ELSE [signals |-> sig, returned |-> FALSE]

\* Monitors.record_signals(): every monitored output is added to its history
record_signals(sig, monitors) ==
    [s \in DOMAIN monitors |-> Append(monitors[s], sig[s[1]].outputs[s[2]])]

\* Monitors.reset_monitors(): the same signals, with empty histories
reset_monitors(monitors) == [s \in DOMAIN monitors |-> <<>>]

----------------------------------------------------------------------------
(* Gui: the simulation handlers *)

\* most cycles asked of the spin control, and most cycles run and recorded
\* before the simulation is reset
MaxCycles == 2
MaxTicks == 3

\* Continuous: a run without end
inf == -1

\* current_cycle < target_cycles, and its negation
Before(cycle, target) == target = inf \/ cycle < target

\* the parameter a device was declared with: the symbol after its kind
PropertyOf(device_id) ==
    LET at == CHOOSE j \in 1 .. (Len(symbols) - 3) :
                  /\ symbols[j].symbol.type = NAME
                  /\ symbols[j].symbol.id.n = device_id
                  /\ symbols[j + 1].symbol.type = COLON
    IN  symbols[at + 3].symbol.id

\* logsim.main: once parse_network has returned True the Gui is constructed
\* on the devices and the monitors the parser has made
NewGui ==
    /\ returned = "True"
    /\ ~gui
    /\ gui' = TRUE
    /\ is_running' = FALSE
    /\ current_cycle' = 0
    /\ signals' = [d \in DOMAIN devices_list |->
                      new_signals(devices_list[d].device_kind, PropertyOf(d))]
    /\ UNCHANGED <<target_cycles, run_calls>>
    /\ UNCHANGED <<error_code_count, names_vars, caller_vars, scanner_vars, message,
                   parser_vars, earlier, loops>>

\* the cycles run or recorded so far
Ticked ==
    LET lengths == {Len(monitors_dictionary[s]) : s \in DOMAIN monitors_dictionary}
                       \cup {current_cycle}
    IN  CHOOSE n \in lengths : \A m \in lengths : m <= n

\* start_simulation(num_cycles)
start_simulation(num_cycles) ==
    IF ~is_running
    THEN /\ is_running' = TRUE
         /\ target_cycles' = num_cycles
         /\ current_cycle' = 0
         /\ run_calls' = <<>>
    ELSE UNCHANGED <<is_running, target_cycles, current_cycle, run_calls>>

\* on_run_button, also reached from the space bar while nothing runs: the
\* spin control holds 1 or more
OnRunButton ==
    /\ gui /\ ~is_running
    /\ \E cycles \in 1 .. MaxCycles : start_simulation(cycles)
    /\ UNCHANGED <<gui, signals>>
    /\ UNCHANGED <<error_code_count, names_vars, caller_vars, scanner_vars, message,
                   parser_vars, earlier, loops>>

\* on_continuous_button: the button is disabled while a simulation runs
OnContinuousButton ==
    /\ gui /\ ~is_running
    /\ start_simulation(inf)
    /\ UNCHANGED <<gui, signals>>
    /\ UNCHANGED <<error_code_count, names_vars, caller_vars, scanner_vars, message,
                   parser_vars, earlier, loops>>

\* on_stop_button: stop_simulation()
OnStopButton ==
    /\ gui /\ is_running
    /\ is_running' = FALSE
    /\ UNCHANGED <<gui, current_cycle, target_cycles, signals, run_calls>>
    /\ UNCHANGED <<error_code_count, names_vars, caller_vars, scanner_vars, message,
                   parser_vars, earlier, loops>>

\* on_reset_button: reset_simulation(); the button is disabled while a
\* simulation runs
OnResetButton ==
    /\ gui /\ ~is_running
    /\ is_running' = FALSE
    /\ current_cycle' = 0
    /\ monitors_dictionary' = reset_monitors(monitors_dictionary)
    /\ UNCHANGED <<gui, target_cycles, signals, run_calls>>
    /\ UNCHANGED <<error_code_count, names_vars, caller_vars, scanner_vars, message,
                   parent, error_count, devices_list, errors, returned, earlier, loops>>

\* execute_cycle(): the network is executed, whatever it returns the
\* signals are recorded, and True is returned
execute_cycle(devices, sig, monitors, calls) ==
    The({[signals |-> r.signals,
          monitors |-> record_signals(r.signals, monitors),
          calls |-> calls \o <<[call |-> "execute_network", returned |-> r.returned],
                              [call |-> "record_signals", returned |-> TRUE]>>,
          returned |-> TRUE] :
             r \in {execute_network(devices, sig)}})

\* on_simulation_tick: the timer runs while is_running
OnSimulationTick ==
    /\ gui /\ is_running
    /\ Ticked < MaxTicks
    /\ IF Before(current_cycle, target_cycles)
       THEN \E r \in {execute_cycle(devices_list, signals, monitors_dictionary, run_calls)} :
                /\ signals' = r.signals
                /\ monitors_dictionary' = r.monitors
                /\ run_calls' = r.calls
                /\ IF r.returned
                   THEN /\ current_cycle' = current_cycle + 1
                        /\ is_running' = Before(current_cycle + 1, target_cycles)
                   ELSE /\ is_running' = FALSE
                        /\ UNCHANGED current_cycle
       ELSE UNCHANGED <<signals, monitors_dictionary, run_calls, current_cycle, is_running>>
    /\ UNCHANGED <<gui, target_cycles>>
    /\ UNCHANGED <<error_code_count, names_vars, caller_vars, scanner_vars, message,
                   parent, error_count, devices_list, errors, returned, earlier, loops>>

\* on_left_click on a switch of the list: the switch is toggled and the
\* network executed, nothing is recorded
OnLeftClick ==
    /\ gui
    /\ \E device_id \in {d \in DOMAIN devices_list : devices_list[d].device_kind = "SWITCH"} :
           \E set \in {set_switch(devices_list, signals, device_id,
                                  inverted(signals[device_id].switch_state))} :
               \E r \in {execute_network(devices_list, set.signals)} :
                   signals' = IF set.returned THEN r.signals ELSE set.signals
    /\ UNCHANGED <<gui, is_running, current_cycle, target_cycles, run_calls>>
    /\ UNCHANGED <<error_code_count, names_vars, caller_vars, scanner_vars, message,
                   parser_vars, earlier, loops>>

\* set_switch for every switch found by find_devices(SWITCH)
set_switches(devices, sig, level) ==
    [d \in DOMAIN sig |->
        IF devices[d].device_kind = "SWITCH" THEN [sig[d] EXCEPT !.switch_state = level]
        ELSE sig[d]]

\* on_all_on: every switch is set HIGH and the network executed, nothing
\* is recorded
OnAllOn ==
    /\ gui
    /\ \E r \in {execute_network(devices_list, set_switches(devices_list, signals, HIGH))} :
           signals' = r.signals
    /\ UNCHANGED <<gui, is_running, current_cycle, target_cycles, run_calls>>
    /\ UNCHANGED <<error_code_count, names_vars, caller_vars, scanner_vars, message,
                   parser_vars, earlier, loops>>

\* on_all_off: every switch is set LOW and the network executed
OnAllOff ==
    /\ gui
    /\ \E r \in {execute_network(devices_list, set_switches(devices_list, signals, LOW))} :
           signals' = r.signals
    /\ UNCHANGED <<gui, is_running, current_cycle, target_cycles, run_calls>>
    /\ UNCHANGED <<error_code_count, names_vars, caller_vars, scanner_vars, message,
                   parser_vars, earlier, loops>>

\* definition files of networks that can be simulated: a NAND gate fed back
\* on itself, which settles only while its switch is off, and a D-type on a
\* clock and a signal generator
SimulationTexts ==
    { Join(<<<<"D", "E", "V", "I", "C", "E", "S">>, <<"S">>, <<":">>, <<"S", "W", "I", "T", "C", "H">>, <<"0">>, <<",">>, <<"G">>, <<":">>, <<"N", "A", "N", "D">>, <<"2">>, <<";">>, <<"C", "O", "N", "N", "E", "C", "T">>, <<"S">>, <<">">>, <<"G">>, <<".">>, <<"I", "1">>, <<",">>, <<"G">>, <<">">>, <<"G">>, <<".">>, <<"I", "2">>, <<";">>, <<"M", "O", "N", "I", "T", "O", "R">>, <<"G">>, <<",">>, <<"S">>, <<";">>, <<"E", "N", "D">>>>),
      Join(<<<<"D", "E", "V", "I", "C", "E", "S">>, <<"S">>, <<":">>, <<"S", "W", "I", "T", "C", "H">>, <<"1">>, <<",">>, <<"G">>, <<":">>, <<"N", "A", "N", "D">>, <<"2">>, <<";">>, <<"C", "O", "N", "N", "E", "C", "T">>, <<"S">>, <<">">>, <<"G">>, <<".">>, <<"I", "1">>, <<",">>, <<"G">>, <<">">>, <<"G">>, <<".">>, <<"I", "2">>, <<";">>, <<"M", "O", "N", "I", "T", "O", "R">>, <<"G">>, <<",">>, <<"S">>, <<";">>, <<"E", "N", "D">>>>),
      Join(<<<<"D", "E", "V", "I", "C", "E", "S">>, <<"C">>, <<":">>, <<"C", "L", "O", "C", "K">>, <<"1">>, <<",">>, <<"W">>, <<":">>, <<"S", "I", "G", "G", "E", "N">>, <<"0", "1">>, <<",">>, <<"S">>, <<":">>, <<"S", "W", "I", "T", "C", "H">>, <<"0">>, <<",">>, <<"F">>, <<":">>, <<"D", "T", "Y", "P", "E">>, <<";">>, <<"C", "O", "N", "N", "E", "C", "T">>, <<"C">>, <<">">>, <<"F">>, <<".">>, <<"C", "L", "K">>, <<",">>, <<"W">>, <<">">>, <<"F">>, <<".">>, <<"D", "A", "T", "A">>, <<",">>, <<"S">>, <<">">>, <<"F">>, <<".">>, <<"S", "E", "T">>, <<",">>, <<"S">>, <<">">>, <<"F">>, <<".">>, <<"C", "L", "E", "A", "R">>, <<";">>, <<"M", "O", "N", "I", "T", "O", "R">>, <<"F">>, <<".">>, <<"Q">>, <<",">>, <<"C">>, <<";">>, <<"E", "N", "D">>>>),
      Join(<<<<"D", "E", "V", "I", "C", "E", "S">>, <<"C">>, <<":">>, <<"C", "L", "O", "C", "K">>, <<"2">>, <<",">>, <<"W">>, <<":">>, <<"S", "I", "G", "G", "E", "N">>, <<"1", "0">>, <<",">>, <<"S">>, <<":">>, <<"S", "W", "I", "T", "C", "H">>, <<"0">>, <<",">>, <<"F">>, <<":">>, <<"D", "T", "Y", "P", "E">>, <<";">>, <<"C", "O", "N", "N", "E", "C", "T">>, <<"C">>, <<">">>, <<"F">>, <<".">>, <<"C", "L", "K">>, <<",">>, <<"W">>, <<">">>, <<"F">>, <<".">>, <<"D", "A", "T", "A">>, <<",">>, <<"S">>, <<">">>, <<"F">>, <<".">>, <<"S", "E", "T">>, <<",">>, <<"S">>, <<">">>, <<"F">>, <<".">>, <<"C", "L", "E", "A", "R">>, <<";">>, <<"M", "O", "N", "I", "T", "O", "R">>, <<"F">>, <<".">>, <<"Q">>, <<",">>, <<"W">>, <<";">>, <<"E", "N", "D">>>>) }

InitGui == NewScanner(SimulationTexts, ParserNames)

NextGui ==
    \/ ParseNetwork
    \/ NewGui
    \/ OnRunButton
    \/ OnContinuousButton
    \/ OnStopButton
    \/ OnResetButton
    \/ OnSimulationTick
    \/ OnLeftClick
    \/ OnAllOn
    \/ OnAllOff

SpecGui == InitGui /\ [][NextGui]_vars

----------------------------------------------------------------------------
(* Claims about the simulation *)

\* the i-th call of the run is an execute_network that returned False
Oscillated(i) ==
    run_calls[i].call = "execute_network" /\ ~run_calls[i].returned

\* C29: a run calls execute_network and then record_signals once per cycle,
\* for no more cycles than were asked for, and an execute_network that
\* returns False is its last call: nothing is recorded for that cycle, no
\* further cycle is executed and the simulation no longer runs
C29_RunAborts ==
    gui =>
        /\ \A i \in 1 .. Len(run_calls) :
               /\ i % 2 = 1 => run_calls[i].call = "execute_network"
               /\ i % 2 = 0 => /\ run_calls[i].call = "record_signals"
                               /\ run_calls[i - 1].returned
               /\ Oscillated(i) => i = Len(run_calls) /\ ~is_running
        /\ target_cycles # inf =>
               Cardinality({i \in 1 .. Len(run_calls) :
                               run_calls[i].call = "execute_network"}) <= target_cycles

\* C30: reset empties the history of every monitor and keeps the monitors,
\* and leaves every clock with counter 0, every signal generator at phase 0
\* and every D-type with Q LOW
C30_Reset ==
    [][OnResetButton =>
          /\ DOMAIN monitors_dictionary' = DOMAIN monitors_dictionary
          /\ \A s \in DOMAIN monitors_dictionary' : monitors_dictionary'[s] = <<>>
          /\ \A d \in DOMAIN signals' :
                 /\ signals'[d].clock_counter = 0
                 /\ signals'[d].siggen_phase = 0
                 /\ devices_list[d].device_kind = "DTYPE" =>
                        /\ signals'[d].dtype_memory = LOW
                        /\ signals'[d].outputs[Q_ID] = LOW]_vars

----------------------------------------------------------------------------
(* Gui: the monitors added and removed *)

BLANK == "BLANK"

\* a history of n BLANKs
Blanks(n) == [i \in 1 .. n |-> BLANK]

\* Monitors.make_monitor(device_id, output_id, cycles_completed): the new
\* history starts with one BLANK for every cycle completed
make_monitor_cycles(devices, monitors, device_id, output_id, cycles_completed) ==
    The({IF made.error = "NO_ERROR"
         THEN [made EXCEPT !.monitors[<<device_id, output_id>>] = Blanks(cycles_completed)]
         ELSE made :
             made \in {make_monitor(devices, monitors, device_id, output_id)}})

\* Monitors.remove_monitor(device_id, output_id)
remove_monitor(monitors, device_id, output_id) ==
    IF <<device_id, output_id>> \in DOMAIN monitors
    THEN [monitors |-> [s \in DOMAIN monitors \ {<<device_id, output_id>>} |-> monitors[s]],
          returned |-> TRUE]
    ELSE [monitors |-> monitors, returned |-> FALSE]

\* add_single_monitor that starts every new history empty
add_single_monitor_unpadded(devices, monitors, signal) ==
    {make_monitor_cycles(devices, monitors, signal[1], signal[2], 0).monitors}

\* add_single_monitor(signal_name): the monitors it can leave. The new
\* history is as long as the one of the first monitor of the dictionary;
\* the dictionary is kept here without its order, so any monitor can be the
\* first one
add_single_monitor(devices, monitors, signal) ==
    LET cycles == IF DOMAIN monitors = {} THEN {0}
                  ELSE {Len(monitors[s]) : s \in DOMAIN monitors}
    IN  {make_monitor_cycles(devices, monitors, signal[1], signal[2], current_cycles).monitors :
             current_cycles \in cycles}

\* on_add_all_monitors, once confirmed: add_single_monitor for every signal
\* left, one after the other
RECURSIVE add_all_monitors(_, _, _)
add_all_monitors(devices, monitors, left) ==
    IF left = {} THEN {monitors}
    ELSE LET signal == CHOOSE s \in left : TRUE
         IN  UNION {add_all_monitors(devices, added, left \ {signal}) :
                        added \in add_single_monitor(devices, monitors, signal)}

\* on_add_monitor: a signal that is not monitored is chosen in the dialog
OnAddMonitor ==
    /\ gui
    /\ \E signal \in get_signal_names(devices_list, monitors_dictionary)[2] :
           monitors_dictionary' \in add_single_monitor(devices_list, monitors_dictionary, signal)
    /\ UNCHANGED gui_vars
    /\ UNCHANGED <<error_code_count, names_vars, caller_vars, scanner_vars, message,
                   parent, error_count, devices_list, errors, returned, earlier, loops>>

\* on_add_all_monitors, confirmed in its dialog
OnAddAllMonitors ==
    /\ gui
    /\ get_signal_names(devices_list, monitors_dictionary)[2] # {}
    /\ monitors_dictionary' \in
           add_all_monitors(devices_list, monitors_dictionary,
                            get_signal_names(devices_list, monitors_dictionary)[2])
    /\ UNCHANGED gui_vars
    /\ UNCHANGED <<error_code_count, names_vars, caller_vars, scanner_vars, message,
                   parent, error_count, devices_list, errors, returned, earlier, loops>>

\* on_zap_button for one monitor of the list
OnZapButton ==
    /\ gui
    /\ \E signal \in DOMAIN monitors_dictionary :
           monitors_dictionary' = remove_monitor(monitors_dictionary, signal[1], signal[2]).monitors
    /\ UNCHANGED gui_vars
    /\ UNCHANGED <<error_code_count, names_vars, caller_vars, scanner_vars, message,
                   parent, error_count, devices_list, errors, returned, earlier, loops>>

\* remove_all(monitors): every monitor removed
RECURSIVE remove_all(_, _)
remove_all(monitors, left) ==
    IF left = {} THEN monitors
    ELSE LET signal == CHOOSE s \in left : TRUE
         IN  remove_all(remove_monitor(monitors, signal[1], signal[2]).monitors,
                        left \ {signal})

\* on_remove_monitor, confirmed in its dialog
OnRemoveMonitor ==
    /\ gui
    /\ DOMAIN monitors_dictionary # {}
    /\ monitors_dictionary' = remove_all(monitors_dictionary, DOMAIN monitors_dictionary)
    /\ UNCHANGED gui_vars
    /\ UNCHANGED <<error_code_count, names_vars, caller_vars, scanner_vars, message,
                   parent, error_count, devices_list, errors, returned, earlier, loops>>

\* definition files of networks with two and three signals to monitor
MonitoredTexts ==
    { Join(<<<<"D", "E", "V", "I", "C", "E", "S">>, <<"S">>, <<":">>, <<"S", "W", "I", "T", "C", "H">>, <<"1">>, <<",">>, <<"G">>, <<":">>, <<"N", "A", "N", "D">>, <<"1">>, <<";">>, <<"C", "O", "N", "N", "E", "C", "T">>, <<"S">>, <<">">>, <<"G">>, <<".">>, <<"I", "1">>, <<";">>, <<"M", "O", "N", "I", "T", "O", "R">>, <<"G">>, <<";">>, <<"E", "N", "D">>>>),
      Join(<<<<"D", "E", "V", "I", "C", "E", "S">>, <<"C">>, <<":">>, <<"C", "L", "O", "C", "K">>, <<"1">>, <<",">>, <<"W">>, <<":">>, <<"S", "I", "G", "G", "E", "N">>, <<"0", "1">>, <<",">>, <<"G">>, <<":">>, <<"N", "A", "N", "D">>, <<"2">>, <<";">>, <<"C", "O", "N", "N", "E", "C", "T">>, <<"C">>, <<">">>, <<"G">>, <<".">>, <<"I", "1">>, <<",">>, <<"W">>, <<">">>, <<"G">>, <<".">>, <<"I", "2">>, <<";">>, <<"M", "O", "N", "I", "T", "O", "R">>, <<"G">>, <<";">>, <<"E", "N", "D">>>>) }

InitMonitors == NewScanner(MonitoredTexts, ParserNames)

NextMonitors ==
    \/ ParseNetwork
    \/ NewGui
    \/ OnRunButton
    \/ OnStopButton
    \/ OnResetButton
    \/ OnSimulationTick
    \/ OnAddMonitor
    \/ OnAddAllMonitors
    \/ OnZapButton
    \/ OnRemoveMonitor

SpecMonitors == InitMonitors /\ [][NextMonitors]_vars

----------------------------------------------------------------------------
(* Claims about the monitors of the Gui *)

\* C31: between the handlers of the Gui every monitor has a history of the
\* same length
C31_SameLength ==
    gui => \A s, u \in DOMAIN monitors_dictionary :
               Len(monitors_dictionary[s]) = Len(monitors_dictionary[u])

\* a monitor added after cycles were recorded stands next to one that
\* recorded them, its history starting with BLANK
C31_Witness ==
    /\ gui
    /\ \E s, u \in DOMAIN monitors_dictionary :
           /\ monitors_dictionary[s] # <<>>
           /\ monitors_dictionary[s][1] = BLANK
           /\ monitors_dictionary[u][1] # BLANK
           /\ monitors_dictionary[s][Len(monitors_dictionary[s])] # BLANK

\* C32: toggling a switch, or setting all of them, leaves every clock
\* counter, every signal generator phase and every D-type as it was: the
\* network is not moved on by it
C32_Toggle ==
    [][(OnLeftClick \/ OnAllOn \/ OnAllOff) =>
          \A d \in DOMAIN signals :
              /\ signals'[d].clock_counter = signals[d].clock_counter
              /\ signals'[d].siggen_phase = signals[d].siggen_phase
              /\ signals'[d].dtype_memory = signals[d].dtype_memory]_vars

----------------------------------------------------------------------------
(* Claims about the parser: the file, the keywords and the ports *)

\* C33: once parse_network has returned, or has raised, the file of the
\* scanner is closed
C33_FileClosed == Parsed => FILE.closed

----------------------------------------------------------------------------
(* Parser: the same file parsed twice *)

\* what a parse leaves behind: the symbols read, the diagnostics, the count
\* of errors, the devices with their connections, the monitors, the names
\* and what parse_network returned
Outcome ==
    [symbols |-> symbols, errors |-> errors, error_count |-> error_count,
     devices |-> devices_list, monitors |-> monitors_dictionary,
     names |-> NamesNow, FILE |-> FILE, returned |-> returned]

\* the table a new run starts from: the one of a new Names, Devices and
\* Scanner
FreshNames == ParserNames

\* a run that goes on with the devices of the run before it
UsedDevices == devices_list

\* the devices and the monitors a new run starts from
FreshDevices == <<>>

\* logsim.main, run again on the same file once parse_network has returned:
\* new Names, Devices, Network, Monitors, Scanner and Parser
ParseAgain ==
    /\ returned # "none"
    /\ earlier = <<>>
    /\ earlier' = <<Outcome>>
    /\ error_code_count' = 0
    /\ id_names' = FreshNames.id_names
    /\ names_id' = FreshNames.names_id
    /\ num_items' = FreshNames.num_items
    /\ LET S == advance([FILE |-> [offset |-> 0, closed |-> FALSE], position |-> 0,
                         line_number |-> 1, current_character |-> ""])
       IN  /\ FILE' = S.FILE
           /\ position' = S.position
           /\ line_number' = S.line_number
           /\ current_character' = S.current_character
    /\ name_string' = <<>>
    /\ symbol' = NewSymbol
    /\ symbols' = <<>>
    /\ parent' = "None"
    /\ error_count' = 0
    /\ devices_list' = FreshDevices
    /\ monitors_dictionary' = <<>>
    /\ errors' = <<>>
    /\ returned' = "none"
    /\ UNCHANGED <<caller_vars, text, message, gui_vars, loops>>

\* files of every kind parsed so far: declarations, repeated declarations,
\* devices used before their declaration, and networks that parse
AgainTexts == DeclarationFiles \cup RepeatedFiles \cup LateFiles \cup SimulationTexts

InitAgain == NewScanner(AgainTexts, ParserNames)

NextAgain == ParseNetwork \/ ParseAgain

SpecAgain == InitAgain /\ [][NextAgain]_vars

----------------------------------------------------------------------------
(* Parser: the signals parsed *)

\* a device of every kind that takes part in a connection
PortDevices ==
    <<<<"D", "E", "V", "I", "C", "E", "S">>, <<"S">>, <<":">>, <<"S", "W", "I", "T", "C", "H">>, <<"0">>, <<",">>, <<"C">>, <<":">>, <<"C", "L", "O", "C", "K">>, <<"1">>, <<",">>, <<"W">>, <<":">>, <<"S", "I", "G", "G", "E", "N">>, <<"0", "1">>, <<",">>, <<"G">>, <<":">>, <<"N", "A", "N", "D">>, <<"2">>, <<",">>, <<"X">>, <<":">>, <<"X", "O", "R">>, <<",">>, <<"F">>, <<":">>, <<"D", "T", "Y", "P", "E">>, <<";">>>>

\* what is written before the arrow of a connection
Sources ==
    { <<<<"S">>>>,
      <<<<"C">>>>,
      <<<<"W">>>>,
      <<<<"G">>>>,
      <<<<"X">>>>,
      <<<<"F">>, <<".">>, <<"Q">>>>,
      <<<<"F">>, <<".">>, <<"Q", "B", "A", "R">>>>,
      <<<<"S">>, <<".">>, <<"I", "1">>>>,
      <<<<"C">>, <<".">>, <<"Q">>>>,
      <<<<"W">>, <<".">>, <<"I", "1">>>>,
      <<<<"G">>, <<".">>, <<"I", "1">>>>,
      <<<<"X">>, <<".">>, <<"I", "1">>>>,
      <<<<"F">>>>,
      <<<<"F">>, <<".">>, <<"D", "A", "T", "A">>>>,
      <<<<"F">>, <<".">>, <<"I", "1">>>>,
      <<<<"F">>, <<".">>, <<"A">>>>,
      <<<<"F">>, <<".">>, <<"1", "3">>>>,
      <<<<"F">>, <<".">>, <<"1", "4">>>>,
      <<<<"F">>, <<".">>, <<"1", "2">>>> }

\* what is written after the arrow of a connection
Sinks ==
    { <<<<"G">>, <<".">>, <<"I", "1">>>>,
      <<<<"G">>, <<".">>, <<"I", "2">>>>,
      <<<<"X">>, <<".">>, <<"I", "1">>>>,
      <<<<"X">>, <<".">>, <<"I", "2">>>>,
      <<<<"F">>, <<".">>, <<"D", "A", "T", "A">>>>,
      <<<<"F">>, <<".">>, <<"C", "L", "K">>>>,
      <<<<"F">>, <<".">>, <<"S", "E", "T">>>>,
      <<<<"F">>, <<".">>, <<"C", "L", "E", "A", "R">>>>,
      <<<<"S">>>>,
      <<<<"C">>>>,
      <<<<"W">>>>,
      <<<<"S">>, <<".">>, <<"I", "1">>>>,
      <<<<"G">>>>,
      <<<<"X">>>>,
      <<<<"F">>>>,
      <<<<"F">>, <<".">>, <<"Q">>>>,
      <<<<"F">>, <<".">>, <<"Q", "B", "A", "R">>>>,
      <<<<"F">>, <<".">>, <<"I", "1">>>>,
      <<<<"F">>, <<".">>, <<"A">>>>,
      <<<<"X">>, <<".">>, <<"I", "3">>>>,
      <<<<"X">>, <<".">>, <<"Q">>>>,
      <<<<"X">>, <<".">>, <<"A">>>>,
      <<<<"G">>, <<".">>, <<"I", "3">>>>,
      <<<<"G">>, <<".">>, <<"I", "1", "6">>>>,
      <<<<"G">>, <<".">>, <<"D", "A", "T", "A">>>>,
      <<<<"G">>, <<".">>, <<"Q">>>>,
      <<<<"G">>, <<".">>, <<"A">>>>,
      <<<<"G">>, <<".">>, <<"I", "1", "7">>>>,
      <<<<"G">>, <<".">>, <<"I", "N">>>>,
      <<<<"G">>, <<".">>, <<"1", "9">>>>,
      <<<<"G">>, <<".">>, <<"2", "0">>>>,
      <<<<"G">>, <<".">>, <<"2", "1">>>>,
      <<<<"F">>, <<".">>, <<"1", "2">>>>,
      <<<<"F">>, <<".">>, <<"9">>>>,
      <<<<"X">>, <<".">>, <<"1", "9">>>> }

\* what is written in a monitor list
Monitored ==
    { <<<<"S">>>>,
      <<<<"G">>>>,
      <<<<"F">>, <<".">>, <<"Q">>>>,
      <<<<"F">>, <<".">>, <<"Q", "B", "A", "R">>>>,
      <<<<"F">>, <<".">>, <<"1", "3">>>>,
      <<<<"F">>, <<".">>, <<"1", "4">>>>,
      <<<<"F">>, <<".">>, <<"1", "2">>>>,
      <<<<"G">>, <<".">>, <<"1", "9">>>>,
      <<<<"S">>, <<".">>, <<"1", "3">>>>,
      <<<<"F">>, <<".">>, <<"I", "1">>>>,
      <<<<"F">>>> }

\* one connection of every source to every sink, a connection without its
\* arrow for every source, a source with nothing but END behind it, and one
\* monitor
SignalFiles ==
    {Join(PortDevices \o <<<<"C", "O", "N", "N", "E", "C", "T">>>> \o source \o <<<<">">>>> \o sink \o <<<<";">>, <<"E", "N", "D">>>>) :
         source \in Sources, sink \in Sinks}
    \cup {Join(PortDevices \o <<<<"C", "O", "N", "N", "E", "C", "T">>>> \o source \o <<<<"G">>>> \o <<<<";">>, <<"E", "N", "D">>>>) :
              source \in Sources}
    \cup {Join(PortDevices \o <<<<"C", "O", "N", "N", "E", "C", "T">>>> \o source \o <<<<"E", "N", "D">>>>) :
              source \in Sources}
    \cup {Join(PortDevices \o <<<<"M", "O", "N", "I", "T", "O", "R">>>> \o signal \o <<<<";">>, <<"E", "N", "D">>>>) : signal \in Monitored}

InitSignals == NewScanner(SignalFiles, ParserNames)

NextSignals == ParseNetwork

SpecSignals == InitSignals /\ [][NextSignals]_vars

----------------------------------------------------------------------------
(* Claims about keywords and ports *)

\* the letter of Parser.parent for the section a keyword opens
ParentOf(id) ==
    CASE id = DEVICES_ID -> "D"
      [] id = CONNECT_ID -> "C"
      [] id = MONITOR_ID -> "M"
      [] OTHER -> "None"

\* C35: only a KEYWORD is taken for a section keyword: the missed-semicolon
\* diagnostic is printed at a KEYWORD only, and a diagnostic printed inside
\* a list belongs to a section whose KEYWORD was read before it
C35_KeywordsOnly ==
    Parsed =>
        \A k \in 1 .. Len(errors) :
            /\ errors[k].error = "MISSED_SEMICOLON" => errors[k].symbol.type = KEYWORD
            /\ errors[k].parent # "None" =>
                   \E j \in 1 .. (errors[k].at - 1) :
                       /\ symbols[j].symbol.type = KEYWORD
                       /\ ParentOf(symbols[j].symbol.id.n) = errors[k].parent

\* the dots of CONNECT and MONITOR sections that a NUMBER follows
NumberedPorts ==
    {j \in 2 .. (Len(symbols) - 1) :
        /\ symbols[j].symbol.type = DOT
        /\ symbols[j + 1].symbol.type = NUMBER
        /\ SectionOf(j) \in {CONNECT_ID, MONITOR_ID}}

\* no input of any device is driven
NothingConnected ==
    \A d \in DOMAIN devices_list :
        \A i \in DOMAIN devices_list[d].inputs : devices_list[d].inputs[i] = UNCONNECTED

\* C36: a NUMBER after the dot of a signal is no port: the one connection or
\* the one monitor of a file that writes a number there is not made
C36_NumberedPort ==
    (Parsed /\ NumberedPorts # {}) =>
        /\ NothingConnected
        /\ DOMAIN monitors_dictionary = {}

----------------------------------------------------------------------------
(* Claims about the two sides of a connection *)

\* the arrow of the connection of the file, when the signal before it is an
\* output of a device: nothing but a name or a keyword counts as a port
SinkArrows ==
    {j \in 3 .. (Len(symbols) - 2) :
        /\ symbols[j].symbol.type = ARROW
        /\ SectionOf(j) = CONNECT_ID
        /\ symbols[j - 2].symbol.type = DOT => symbols[j - 1].symbol.type \in {NAME, KEYWORD}
        /\ symbols[SourceStart(j)].symbol.type = NAME
        /\ Source(j)[1] \in DOMAIN devices_list
        /\ Source(j)[2] \in devices_list[Source(j)[1]].outputs
        /\ symbols[j + 1].symbol.type = NAME
        /\ symbols[j + 1].symbol.id.n \in DOMAIN devices_list}

\* the port written after the arrow at j is a name or a keyword, or there
\* is none
NamedSink(j) ==
    symbols[j + 2].symbol.type = DOT =>
        /\ j + 3 \in DOMAIN symbols
        /\ symbols[j + 3].symbol.type \in {NAME, KEYWORD}

\* what the sink after the arrow at j is to be reported as, NO_ERROR when it
\* is an input of its device
SinkError(j) ==
    LET sink == devices_list[symbols[j + 1].symbol.id.n]
        port == symbols[j + 3].symbol.id.n
    IN  IF sink.device_kind \in {"SWITCH", "CLOCK", "SIGGEN"}
        THEN "INVALID_CONNECTION_SC"
        ELSE IF symbols[j + 2].symbol.type # DOT THEN "OUTPUT_TO_OUTPUT"
        ELSE IF port \in DOMAIN sink.inputs THEN "NO_ERROR"
        ELSE IF sink.device_kind = "DTYPE"
        THEN IF port \in {Q_ID, QBAR_ID} THEN "OUTPUT_TO_OUTPUT"
             ELSE "INVALID_PORT_DTYPE"
        ELSE IF sink.device_kind = "XOR" THEN "INVALID_PORT_XOR"
        ELSE IF port \in {I_ID(k) : k \in 1 .. 16} THEN "PORT_OUT_RANGE"
        ELSE "NOT_I_PORT"

\* C39: the sink of a connection that is no input of its device is reported
\* by its case (a SWITCH, CLOCK or SIGGEN as INVALID_CONNECTION_SC, no dot or
\* an output of a DTYPE as OUTPUT_TO_OUTPUT, another port of a DTYPE as
\* INVALID_PORT_DTYPE, of an XOR as INVALID_PORT_XOR, of a gate as
\* PORT_OUT_RANGE when it is one of I1..I16 and as NOT_I_PORT otherwise), and
\* no connection is made; stated for the ports that are names
C39_Sink ==
    Parsed =>
        \A j \in SinkArrows :
            (NamedSink(j) /\ SinkError(j) # "NO_ERROR") =>
                /\ \E k \in 1 .. Len(errors) :
                       /\ errors[k].error = SinkError(j)
                       /\ errors[k].at \in (j + 1) .. (j + 3)
                /\ NothingConnected

\* the names that open the connection of a file: a device declared, right
\* behind CONNECT
SourceNames ==
    {i \in 2 .. (Len(symbols) - 1) :
        /\ symbols[i - 1].symbol.type = KEYWORD
        /\ symbols[i - 1].symbol.id.n = CONNECT_ID
        /\ symbols[i].symbol.type = NAME
        /\ symbols[i].symbol.id.n \in DOMAIN devices_list}

\* the port written after the name at i is a name or a keyword, or there is
\* none
NamedSource(i) ==
    symbols[i + 1].symbol.type = DOT =>
        /\ i + 2 \in DOMAIN symbols
        /\ symbols[i + 2].symbol.type \in {NAME, KEYWORD}

\* NO_ARROW unless the n-th symbol read is the arrow
ArrowAt(n) ==
    IF n \in DOMAIN symbols /\ symbols[n].symbol.type = ARROW
    THEN "NO_ERROR" ELSE "NO_ARROW"

\* what the source that opens at i is to be reported as, NO_ERROR when it is
\* an output of its device with an arrow behind it
SourceError(i) ==
    LET kind == devices_list[symbols[i].symbol.id.n].device_kind
        dotted == symbols[i + 1].symbol.type = DOT
    IN  IF kind \in {"SWITCH", "CLOCK", "SIGGEN"}
        THEN IF dotted THEN "DOT" ELSE ArrowAt(i + 1)
        ELSE IF kind # "DTYPE"
        THEN IF dotted THEN "INPUT_TO_INPUT" ELSE ArrowAt(i + 1)
        ELSE IF ~dotted THEN "NO_DOT"
        ELSE IF symbols[i + 2].symbol.id.n \notin {Q_ID, QBAR_ID} THEN "INVALID_PORT"
        ELSE ArrowAt(i + 3)

\* C40: the source of a connection with a dot after a SWITCH, CLOCK or SIGGEN
\* is reported as DOT, with a dot after a gate or an XOR as INPUT_TO_INPUT, a
\* DTYPE without a dot as NO_DOT, a port of a DTYPE other than Q and QBAR as
\* INVALID_PORT, and a source without an arrow behind it as NO_ARROW, and no
\* connection is made; stated for the ports that are names
C40_Source ==
    Parsed =>
        \A i \in SourceNames :
            (NamedSource(i) /\ SourceError(i) # "NO_ERROR") =>
                /\ \E k \in 1 .. Len(errors) :
                       /\ errors[k].error = SourceError(i)
                       /\ errors[k].at \in i .. (i + 3)
                /\ NothingConnected

----------------------------------------------------------------------------
(* Parser: parse_network, one iteration of a loop at a time *)

\* a loop has not begun an iteration yet
NotBegun == -1

\* the symbols the scanner has handed out that move it on through the file:
\* every symbol but an end of file handed out again
Passed(P) ==
    Len(SelectSeq(P.symbols, LAMBDA s : s.symbol.type # EOF))
        + (IF \E i \in DOMAIN P.symbols : P.symbols[i].symbol.type = EOF THEN 1 ELSE 0)

\* a loop parse_network is inside of: the loop of parse_network over the
\* sections, the loop of the list of a section, or the loop that ends
\* error(), with stopping_punctuation_flag
Loop(loop, section, flag) ==
    [loop |-> loop, section |-> section, stopping_punctuation_flag |-> flag,
     at |-> NotBegun]

\* the loop on top begins an iteration
Begin(stack, P) == [stack EXCEPT ![Len(stack)].at = Passed(P)]

\* the loop on top is left
Leave(stack) == SubSeq(stack, 1, Len(stack) - 1)

\* control comes back to the code around the loop on top: after a list
\* "if self.parent is None: return" leaves the list, and parse_network sets
\* parent = None before the next section
RECURSIVE back(_, _)
back(P0, stack0) ==
    The({
        IF stack = <<>> \/ P.raised THEN [P |-> P, stack |-> <<>>]
        ELSE IF stack[Len(stack)].loop = "list"
        THEN IF P.parent = NO_PARENT THEN back(P, Leave(stack))
             ELSE [P |-> P, stack |-> stack]
        ELSE [P |-> [P EXCEPT !.parent = NO_PARENT], stack |-> stack] :
        P \in {P0}, stack \in {stack0}})

\* error(error_type) up to its loop: the parser, and whether the loop is
\* entered
error_begun(P0, error_type) ==
    The({
        IF \/ error_type = "MISSED_SEMICOLON"
           \/ IsSection(P.symbol)
           \/ P.symbol.type = COMMA /\ P.parent # NO_PARENT
           \/ P.symbol.type = SEMICOLON
        THEN [P |-> error(P, error_type), recovering |-> FALSE]
        ELSE [P |-> Report(P, error_type), recovering |-> TRUE] :
        P \in {P0}})

\* error(error_type) called inside the loop on top
call_error(P0, error_type, stack) ==
    The({
        IF e.recovering
        THEN [P |-> e.P,
              stack |-> Append(stack, Loop("error", "", error_type = "NO_SEMICOLON"))]
        ELSE back(e.P, stack) :
        e \in {error_begun(P0, error_type)}})

\* an item of a list has been parsed inside the loop on top
call_item(r0, stack) ==
    The({
        IF r.P.raised \/ r.error = "NO_ERROR" THEN back(r.P, stack)
        ELSE call_error(r.P, r.error, stack) :
        r \in {r0}})

\* an iteration of the loop of parse_network: a section begins with its
\* first item, END ends the loop, anything else is an error
sections_iteration(P0, stack0) ==
    The({
        LET is(id) == P.symbol.id.k = "int" /\ P.symbol.id.n = id
            list(section) ==
                call_item(item(Scan([P EXCEPT !.parent = section]), section),
                          Append(stack, Loop("list", section, FALSE)))
        IN  IF P.symbol.type = EOF THEN [P |-> P, stack |-> <<>>]
            ELSE IF is(DEVICES_ID) THEN list("D")
            ELSE IF is(CONNECT_ID) THEN list("C")
            ELSE IF is(MONITOR_ID) THEN list("M")
            ELSE IF is(END_ID)
            THEN The({IF P1.symbol.type # EOF THEN call_error(P1, "NOT_END", <<>>)
                      ELSE [P |-> P1, stack |-> <<>>] :
                         P1 \in {Scan(P)}})
            ELSE call_error(P, "NO_INITIALISATION_KEYWORD", stack) :
        P \in {P0}, stack \in {Begin(stack0, P0)}})

\* a list loop that does not read on at a comma
list_iteration_comma_kept(P0, stack0) ==
    The({
        LET section == stack[Len(stack)].section
        IN  IF P.symbol.type = COMMA
            THEN call_item(item(P, section), stack)
            ELSE IF P.symbol.type = SEMICOLON THEN back(Scan(P), Leave(stack))
            ELSE call_error(P, "NO_SEMICOLON", stack) :
        P \in {P0}, stack \in {Begin(stack0, P0)}})

\* an iteration of the loop of device_list, connection_list or monitor_list
list_iteration(P0, stack0) ==
    The({
        LET section == stack[Len(stack)].section
        IN  IF P.symbol.type = COMMA
            THEN call_item(item(Scan(P), section), stack)
            ELSE IF P.symbol.type = SEMICOLON THEN back(Scan(P), Leave(stack))
            ELSE call_error(P, "NO_SEMICOLON", stack) :
        P \in {P0}, stack \in {Begin(stack0, P0)}})

\* an iteration of the loop that ends error(): at the end of the file the
\* loop is left and the missing END reported
error_iteration(P0, stack0) ==
    The({
        IF R.symbol.type = EOF
        THEN back([Diagnose(R, "NO_END", "NO_END", TRUE) EXCEPT !.parent = NO_PARENT],
                  Leave(stack))
        ELSE The({
                 IF P.parent # NO_PARENT /\ P.symbol.type = COMMA
                 THEN back(P, Leave(stack))
                 ELSE IF P.symbol.type = SEMICOLON
                 THEN back([Scan(P) EXCEPT !.parent = NO_PARENT], Leave(stack))
                 ELSE IF IsSection(P.symbol)
                 THEN back(IF stack[Len(stack)].stopping_punctuation_flag
                           THEN [P EXCEPT !.parent = NO_PARENT]
                           ELSE Diagnose([P EXCEPT !.parent = NO_PARENT],
                                         "MISSED_SEMICOLON", "MISSED_SEMICOLON", TRUE),
                           Leave(stack))
                 ELSE [P |-> P, stack |-> stack] :
                 P \in {Scan(R)}}) :
        R \in {P0}, stack \in {Begin(stack0, P0)}})

\* an iteration of the loop on top
iteration(P, stack) ==
    CASE stack[Len(stack)].loop = "sections" -> sections_iteration(P, stack)
      [] stack[Len(stack)].loop = "list" -> list_iteration(P, stack)
      [] stack[Len(stack)].loop = "error" -> error_iteration(P, stack)

\* parse_network() after its loop: the parser, the loops and what is returned
finished(r0) ==
    The({
        IF r.stack # <<>> THEN [P |-> r.P, stack |-> r.stack, returned |-> "none"]
        ELSE IF r.P.raised THEN [P |-> r.P, stack |-> <<>>, returned |-> "raised"]
        ELSE The({[P |-> checked, stack |-> <<>>,
                   returned |-> IF checked.error_count > 0 THEN "False" ELSE "True"] :
                     checked \in {empty_check(network_check(r.P))}}) :
        r \in {r0}})

\* the parser goes on as r.P, inside r.stack
Goes(r) ==
    /\ SetScanner(r.P.S)
    /\ SetNames(r.P.N)
    /\ name_string' = r.P.name_string
    /\ symbol' = r.P.symbol
    /\ symbols' = r.P.symbols
    /\ parent' = r.P.parent
    /\ error_count' = r.P.error_count
    /\ devices_list' = r.P.devices
    /\ monitors_dictionary' = r.P.monitors
    /\ errors' = r.P.errors
    /\ returned' = r.returned
    /\ loops' = r.stack
    /\ UNCHANGED <<error_code_count, caller_vars, text, message, gui_vars, earlier>>

\* parse_network() is called: the first symbol is read
EnterParseNetwork ==
    /\ returned = "none"
    /\ loops = <<>>
    /\ symbols = <<>>
    /\ \E r \in {[P |-> Scan(ParserNow), stack |-> <<Loop("sections", "", FALSE)>>,
                  returned |-> "none"]} : Goes(r)

\* the innermost loop goes through one iteration; when the loop of
\* parse_network is left, parse_network returns
Iterate ==
    /\ returned = "none"
    /\ loops # <<>>
    /\ \E r \in {finished(iteration(ParserNow, loops))} : Goes(r)

\* files with lists, errors inside and between the items, and ends of file
\* inside a list and inside an error
LoopTexts == DeclarationFiles \cup RepeatedFiles \cup LateFiles \cup SimulationTexts

InitLoops == NewScanner(LoopTexts, ParserNames)

NextLoops == EnterParseNetwork \/ Iterate

SpecLoops == InitLoops /\ [][NextLoops]_vars

\* parse_network runs on whenever it can
FairLoops == SpecLoops /\ WF_vars(NextLoops)


----------------------------------------------------------------------------
(* Claims about the loops of the parser *)

\* the loop parse_network is at the head of has moved on since its latest
\* iteration began
MovedOn ==
    loops # <<>> =>
        \/ loops[Len(loops)].at = NotBegun
        \/ Len(SelectSeq(symbols, LAMBDA s : s.symbol.type # EOF))
               + (IF \E i \in DOMAIN symbols : symbols[i].symbol.type = EOF
                  THEN 1 ELSE 0)
             > loops[Len(loops)].at

\* C37: parse_network terminates on every file: whenever the loop over the
\* sections, the loop of a list or the loop that ends error() is back at its
\* head, a symbol has been read since its latest iteration began (an
\* iteration that reads none leaves its loop), and parse_network returns
\* in the end
C37_Terminates == []MovedOn /\ <>Parsed

\* a list is back at the head of its loop after an error inside it whose
\* loop went through more than one iteration
C37_Witness ==
    /\ Len(loops) = 2
    /\ loops[2].loop = "list"
    /\ loops[2].at # NotBegun
    /\ \E k \in DOMAIN errors :
           /\ errors[k].parent # NO_PARENT
           /\ ~errors[k].recovering
           /\ errors[k].at >= loops[2].at
           /\ Len(symbols) > errors[k].at + 1


----------------------------------------------------------------------------
(* Scanner: a character that starts no token, and a blank in its place *)

\* most pieces in a file of UnknownTexts
MaxUnknown == 3

\* characters that start no token, blanks, a tab, a newline, a name, a
\* number and what opens a comment
UnknownPieces == {<<"?">>, <<"[">>, <<" ">>, <<"\t">>, <<"\n">>, <<"A">>, <<"1">>,
                  <<"/">>, <<"*">>}

UnknownTexts == Concats(UnknownPieces, MaxUnknown)

\* the file once scanned to its end, scanned again by a new Scanner and a
\* new Names with a blank in the place of the character of one of its
\* symbols of no kind
ScanBlanked ==
    /\ symbol.type = EOF
    /\ earlier = <<>>
    /\ \E k \in DOMAIN symbols :
           /\ symbols[k].symbol.type = NoneType
           /\ earlier' = <<[symbols |-> symbols, k |-> k]>>
           /\ text' = [text EXCEPT ![symbols[k].start] = " "]
    /\ id_names' = KeywordNames.id_names
    /\ names_id' = KeywordNames.names_id
    /\ num_items' = KeywordNames.num_items
    /\ FILE' = [offset |-> 1, closed |-> FALSE]
    /\ position' = 1
    /\ line_number' = 1
    /\ current_character' = text'[1]
    /\ name_string' = <<>>
    /\ symbol' = NewSymbol
    /\ symbols' = <<>>
    /\ UNCHANGED <<error_code_count, caller_vars, message, parser_vars, gui_vars, loops>>

InitUnknown == NewScanner(UnknownTexts, KeywordNames)

NextUnknown == GetSymbol \/ ScanBlanked

SpecUnknown == InitUnknown /\ [][NextUnknown]_vars

----------------------------------------------------------------------------
(* Claims about characters that start no token *)

\* C38: a character that starts no token gives one symbol of no kind, with
\* the line and the column of the character, and get_symbol consumes that
\* character and no more; the symbols after it are, in kind, id, line_number
\* and position, those of the file with a blank in its place
C38_Unknown ==
    /\ \A i \in DOMAIN symbols :
          LET e == symbols[i]
          IN  (e.symbol.type = NoneType /\ text[e.start] # " ") =>
                  /\ StartsNoToken(e.start)
                  /\ e.symbol.line_number = LineOf(e.start)
                  /\ e.symbol.position = ColOf(e.start)
                  /\ i = Len(symbols) => CurIndex(ScannerNow) = e.start + 1
    /\ (earlier # <<>> /\ symbol.type = EOF) =>
          LET first == earlier[1].symbols
              k == earlier[1].k
          IN  /\ Len(symbols) = Len(first) - 1
              /\ \A j \in (k + 1) .. Len(first) :
                    j - 1 \in DOMAIN symbols /\ symbols[j - 1].symbol = first[j].symbol

====
